---------------------------- MODULE Spec2Model ----------------------------
(***************************************************************************)
(* A model of the market-making simulator: the live portfolio ledger       *)
(* (src/portfolio.py), the quote engine (src/strategy.py), the dashboard's *)
(* feed handlers and render loop (src/dashboard.py) and the offline P&L    *)
(* reconstructor (src/analyze.py).                                         *)
(*                                                                         *)
(* Python floats are modelled as exact rationals <<n, d>> in lowest terms  *)
(* with d > 0, so that equal values are equal tuples.  Prices are in USD   *)
(* and quantities in BTC, as in the source.                                *)
(***************************************************************************)
EXTENDS Integers, Sequences, FiniteSets, TLC

VARIABLES
    portfolio, \* the PortfolioManager: state, inventory limits, histories
    now,     \* time.time(), in units of half a quote refresh interval
    steps,   \* number of calls or events so far
    last,    \* the last operation: its name, arguments, result and the manager before it
    replay,  \* one run of analyze.py's compute_pnl_from_trades: its arguments and its result
    feed,    \* the dashboard's view of the market: bids, asks, recent_trades, spread_analyzer
    market_maker, \* the SimpleMarketMaker: config, is_active, last_quote_time, current quotes, counters
    pc,      \* where the dashboard's main thread is: "idle" (no dashboard), "running", "stopped", "replayed"
    threads  \* the data lock, the feed thread and the render loop, where the two threads are modelled

vars == <<portfolio, now, steps, last, replay, feed, market_maker, pc, threads>>

-----------------------------------------------------------------------------
(* Exact rational arithmetic standing for float arithmetic.                *)

RECURSIVE GCD(_, _)
GCD(a, b) == IF b = 0 THEN a ELSE GCD(b, a % b)

AbsInt(n) == IF n < 0 THEN -n ELSE n

Norm(n, d) == LET g == GCD(AbsInt(n), d) IN <<n \div g, d \div g>>

Q(n, d) == Norm(n, d)

I(n) == <<n, 1>>

Zero == <<0, 1>>

LCM(a, b) == (a \div GCD(a, b)) * b

Plus(a, b) ==
    LET l == LCM(a[2], b[2])
    IN  Norm(a[1] * (l \div a[2]) + b[1] * (l \div b[2]), l)

Neg(a) == <<-a[1], a[2]>>

Minus(a, b) == Plus(a, Neg(b))

Times(a, b) ==
    LET g1 == GCD(AbsInt(a[1]), b[2])
        g2 == GCD(AbsInt(b[1]), a[2])
    IN  Norm((a[1] \div g1) * (b[1] \div g2), (a[2] \div g2) * (b[2] \div g1))

Inv(a) == IF a[1] > 0 THEN <<a[2], a[1]>> ELSE <<-a[2], -a[1]>>

Over(a, b) == Times(a, Inv(b))

Lt(a, b) ==
    LET l == LCM(a[2], b[2])
    IN  a[1] * (l \div a[2]) < b[1] * (l \div b[2])

Le(a, b) == a = b \/ Lt(a, b)

Gt(a, b) == Lt(b, a)

Ge(a, b) == Le(b, a)

Min2(a, b) == IF Lt(b, a) THEN b ELSE a

Max2(a, b) == IF Lt(a, b) THEN b ELSE a

AbsQ(a) == <<AbsInt(a[1]), a[2]>>

-----------------------------------------------------------------------------
(* Python's deque(maxlen = n).append: the oldest entry is evicted.         *)

DequeAppend(dq, x, maxlen) ==
    IF Len(dq) >= maxlen THEN Append(Tail(dq), x) ELSE Append(dq, x)


-----------------------------------------------------------------------------
(* Bounds of the explored runs.                                            *)

\* Longest sequence of calls on one PortfolioManager (SpecLedger).
MaxOps == 3

\* Largest inventory cap a PortfolioManager is constructed with.
MaxCap == 2

\* Longest trade log handed to compute_pnl_from_trades (SpecReplay).
MaxRows == 3

(* Capacities of the source's bounded histories, scaled down so that       *)
(* eviction is reachable: the source's values are 1000, 10 and 1000.       *)

FillsHistoryMaxlen == 2

RecentFillsMaxlen == 1

PnlHistoryMaxlen == 2

\* Python's None, for an Optional[float], an Optional[Quote] or an Optional[Fill].
None == <<>>

\* What a call gives when a float division by zero ends it: ZeroDivisionError is raised.
ZeroDivisionError == [raises |-> "ZeroDivisionError"]

-----------------------------------------------------------------------------
(* src/portfolio.py: PortfolioState, PortfolioManager.                     *)

PortfolioState(initial_usd) ==
    [ q |-> Zero, cash |-> Zero, nav |-> Zero, pnl |-> Zero,
      btc_balance |-> Zero, usd_balance |-> initial_usd,
      total_btc_bought |-> Zero, total_btc_sold |-> Zero,
      total_usd_spent |-> Zero, total_usd_received |-> Zero,
      realized_pnl |-> Zero, unrealized_pnl |-> Zero,
      avg_entry_price |-> Zero, total_trades |-> 0 ]

PortfolioManager(initial_usd, max_inv) ==
    [ state |-> PortfolioState(initial_usd),
      max_inventory |-> max_inv,
      min_inventory |-> Neg(max_inv),
      fills_history |-> <<>>,
      recent_fills |-> <<>>,
      pnl_history |-> <<>> ]

Fill(timestamp, side, price, size) ==
    [ timestamp |-> timestamp, side |-> side, price |-> price, size |-> size ]

Trade(timestamp, price, size, side) ==
    [ timestamp |-> timestamp, price |-> price, size |-> size, side |-> side ]

\* Python truthiness of an Optional[float]: None and 0.0 are false.
Truthy(x) == x # None /\ x # Zero

\* A faulty _update_avg_entry_price_on_fill: a fill that crosses zero keeps the old average.
UpdateAvgEntryPriceKeptOnCross(avg, side, price, executed, q_before, q_after) ==
    IF Le(executed, Zero) THEN avg
    ELSE IF (side = "buy" /\ Ge(q_before, Zero)) \/ (side # "buy" /\ Le(q_before, Zero))
    THEN Over(Plus(Times(avg, AbsQ(q_before)), Times(price, executed)), Plus(AbsQ(q_before), executed))
    ELSE IF q_after = Zero THEN Zero
    ELSE avg

(* _update_avg_entry_price_on_fill: the new avg_entry_price.               *)
UpdateAvgEntryPriceOnFill(avg, side, price, executed, q_before, q_after) ==
    IF Le(executed, Zero) THEN avg
    ELSE IF side = "buy"
    THEN IF Ge(q_before, Zero)
         THEN LET base == q_before
                  add  == executed
              IN  IF Gt(Plus(base, add), Zero)
                  THEN Over(Plus(Times(avg, base), Times(price, add)), Plus(base, add))
                  ELSE Zero
         ELSE IF Lt(q_after, Zero) THEN avg
              ELSE IF q_after = Zero THEN Zero
              ELSE price
    ELSE IF Le(q_before, Zero)
         THEN LET base == Neg(q_before)
                  add  == executed
              IN  IF Gt(Plus(base, add), Zero)
                  THEN Over(Plus(Times(avg, base), Times(price, add)), Plus(base, add))
                  ELSE Zero
         ELSE IF Gt(q_after, Zero) THEN avg
              ELSE IF q_after = Zero THEN Zero
              ELSE price

\* Faulty new_q: the inventory limit is not applied.
NewQBuyUnclipped(old_q, size, max_inv) == Plus(old_q, size)

NewQSellUnclipped(old_q, size, min_inv) == Minus(old_q, size)

\* new_q of a buy fill (portfolio.py:137) and of a sell fill (portfolio.py:144).
NewQBuy(old_q, size, max_inv) == Min2(Plus(old_q, size), max_inv)

NewQSell(old_q, size, min_inv) == Max2(Minus(old_q, size), min_inv)

\* A faulty process_fill_market_making: the activity counters take the size asked for, not the size executed.
ProcessFillMarketMakingCountsAsked(pf, fill) ==
    LET s      == pf.state
        old_q  == s.q
        isBuy  == fill.side = "buy"
        new_q  == IF isBuy THEN NewQBuy(old_q, fill.size, pf.max_inventory)
                  ELSE NewQSell(old_q, fill.size, pf.min_inventory)
        actual == IF isBuy THEN Minus(new_q, old_q) ELSE Minus(old_q, new_q)
        amount == Times(actual, fill.price)
        cash2  == IF isBuy THEN Minus(s.cash, amount) ELSE Plus(s.cash, amount)
        avg2   == UpdateAvgEntryPriceOnFill(s.avg_entry_price, fill.side, fill.price, actual, old_q, new_q)
    IN  IF Le(actual, Zero) THEN pf
        ELSE [ pf EXCEPT
                 !.state = [ s EXCEPT
                     !.cash = cash2,
                     !.q = new_q,
                     !.avg_entry_price = avg2,
                     !.total_trades = @ + 1,
                     !.btc_balance = new_q,
                     !.total_btc_bought = IF isBuy THEN Plus(@, fill.size) ELSE @,
                     !.total_usd_spent = IF isBuy THEN Plus(@, amount) ELSE @,
                     !.total_btc_sold = IF isBuy THEN @ ELSE Plus(@, fill.size),
                     !.total_usd_received = IF isBuy THEN @ ELSE Plus(@, amount) ],
                 !.fills_history = DequeAppend(@, fill, FillsHistoryMaxlen),
                 !.recent_fills = DequeAppend(@, fill, RecentFillsMaxlen) ]

(* process_fill_market_making: the manager after the fill.  Any side that  *)
(* is not 'buy' takes the else branch, as in the source.                   *)
ProcessFillMarketMaking(pf, fill) ==
    LET s      == pf.state
        old_q  == s.q
        isBuy  == fill.side = "buy"
        new_q  == IF isBuy THEN NewQBuy(old_q, fill.size, pf.max_inventory)
                  ELSE NewQSell(old_q, fill.size, pf.min_inventory)
        actual == IF isBuy THEN Minus(new_q, old_q) ELSE Minus(old_q, new_q)
        amount == Times(actual, fill.price)
        cash2  == IF isBuy THEN Minus(s.cash, amount) ELSE Plus(s.cash, amount)
        avg2   == UpdateAvgEntryPriceOnFill(s.avg_entry_price, fill.side, fill.price, actual, old_q, new_q)
    IN  IF Le(actual, Zero) THEN pf
        ELSE [ pf EXCEPT
                 !.state = [ s EXCEPT
                     !.cash = cash2,
                     !.q = new_q,
                     !.avg_entry_price = avg2,
                     !.total_trades = @ + 1,
                     !.btc_balance = new_q,
                     !.total_btc_bought = IF isBuy THEN Plus(@, actual) ELSE @,
                     !.total_usd_spent = IF isBuy THEN Plus(@, amount) ELSE @,
                     !.total_btc_sold = IF isBuy THEN @ ELSE Plus(@, actual),
                     !.total_usd_received = IF isBuy THEN @ ELSE Plus(@, amount) ],
                 !.fills_history = DequeAppend(@, fill, FillsHistoryMaxlen),
                 !.recent_fills = DequeAppend(@, fill, RecentFillsMaxlen) ]

\* The size our bid takes from a market sell (portfolio.py:85-91), <= 0 if none.
BidFillSize(pf, trade_size, our_bid_size) ==
    LET max_buy_size == Minus(pf.max_inventory, pf.state.q)
    IN  IF Le(max_buy_size, Zero) THEN Zero
        ELSE Min2(Min2(our_bid_size, trade_size), max_buy_size)

\* The size our ask gives to a market buy (portfolio.py:106-112), <= 0 if none.
AskFillSize(pf, trade_size, our_ask_size) ==
    LET max_sell_size == Minus(pf.state.q, pf.min_inventory)
    IN  IF Le(max_sell_size, Zero) THEN Zero
        ELSE Min2(Min2(our_ask_size, trade_size), max_sell_size)

\* A faulty bid test: a trade exactly at our bid does not fill it.
BidHitStrict(trade, our_bid_price, our_bid_size) ==
    /\ Truthy(our_bid_price)
    /\ Gt(our_bid_size, Zero)
    /\ trade.side = "sell"
    /\ Lt(trade.price, our_bid_price)

BidHit(trade, our_bid_price, our_bid_size) ==
    /\ Truthy(our_bid_price)
    /\ Gt(our_bid_size, Zero)
    /\ trade.side = "sell"
    /\ Le(trade.price, our_bid_price)

AskHit(trade, our_ask_price, our_ask_size) ==
    /\ Truthy(our_ask_price)
    /\ Gt(our_ask_size, Zero)
    /\ trade.side = "buy"
    /\ Ge(trade.price, our_ask_price)

(* The Fill simulate_fill_from_trade builds, or None (portfolio.py:78-120). *)
FillFromTrade(pf, trade, our_bid_price, our_ask_price, our_bid_size, our_ask_size, t) ==
    IF BidHit(trade, our_bid_price, our_bid_size)
    THEN LET fs == BidFillSize(pf, trade.size, our_bid_size)
         IN  IF Le(fs, Zero) THEN None ELSE Fill(t, "buy", our_bid_price, fs)
    ELSE IF AskHit(trade, our_ask_price, our_ask_size)
    THEN LET fs == AskFillSize(pf, trade.size, our_ask_size)
         IN  IF Le(fs, Zero) THEN None ELSE Fill(t, "sell", our_ask_price, fs)
    ELSE None

\* simulate_fill_from_trade returning the Fill without handing it to the ledger.
SimulateFillFromTradeNoLedger(pf, trade, our_bid_price, our_ask_price, our_bid_size, our_ask_size, t) ==
    [ pf  |-> pf,
      ret |-> FillFromTrade(pf, trade, our_bid_price, our_ask_price, our_bid_size, our_ask_size, t) ]

(* simulate_fill_from_trade: the manager after the call and the value it   *)
(* returns.                                                                *)
SimulateFillFromTrade(pf, trade, our_bid_price, our_ask_price, our_bid_size, our_ask_size, t) ==
    LET fill == FillFromTrade(pf, trade, our_bid_price, our_ask_price, our_bid_size, our_ask_size, t)
    IN  [ pf  |-> IF fill # None THEN ProcessFillMarketMaking(pf, fill) ELSE pf,
          ret |-> fill ]

\* pnl_history after one more mark (portfolio.py:237-239).
PnlHistoryAppend(hist, pnl) ==
    LET h == Append(hist, pnl)
    IN  IF Len(h) > PnlHistoryMaxlen THEN Tail(h) ELSE h

\* A faulty update_nav_and_pnl: pnl is summed before nav is refreshed.
UpdateNavAndPnlStaleNav(pf, fair_price) ==
    LET s    == pf.state
        nav2 == Times(s.q, fair_price)
        pnl2 == Plus(s.cash, s.nav)
    IN  [ pf EXCEPT
            !.state = [ s EXCEPT !.nav = nav2, !.pnl = pnl2,
                                 !.realized_pnl = s.cash, !.unrealized_pnl = nav2 ],
            !.pnl_history = Append(@, pnl2) ]

(* update_nav_and_pnl: the manager after a mark at fair_price.             *)
UpdateNavAndPnl(pf, fair_price) ==
    LET s    == pf.state
        nav2 == Times(s.q, fair_price)
        pnl2 == Plus(s.cash, nav2)
    IN  [ pf EXCEPT
            !.state = [ s EXCEPT !.nav = nav2, !.pnl = pnl2,
                                 !.realized_pnl = s.cash, !.unrealized_pnl = nav2 ],
            !.pnl_history = PnlHistoryAppend(@, pnl2) ]


-----------------------------------------------------------------------------
(* src/analyze.py: compute_pnl_from_trades.  A CSV row is modelled with    *)
(* its fields already parsed: price and size are what parse_float gives    *)
(* (NaN when the text is unparseable), timestamp is the sort key           *)
(* parse_time_any gives, and mark is the parsed mark column, or None when  *)
(* the row has no such column or an empty or unparseable value in it.  An  *)
(* optional column name is None or the one-element tuple of the name.      *)

\* float("nan"): no rational has denominator 0.
NaN == <<0, 0>>

IsFinite(x) == x # NaN

Row(timestamp, side, price, size, mark) ==
    [ timestamp |-> timestamp, side |-> side, price |-> price, size |-> size, mark |-> mark ]

\* sorted(..., key = time) is stable: r goes after every row that is not later than it.
RECURSIVE InsertByTime(_, _)
InsertByTime(sorted, r) ==
    IF sorted = <<>> THEN <<r>>
    ELSE IF Head(sorted).timestamp <= r.timestamp
         THEN <<Head(sorted)>> \o InsertByTime(Tail(sorted), r)
         ELSE <<r>> \o sorted

RECURSIVE SortedByTime(_)
SortedByTime(rows) ==
    IF rows = <<>> THEN <<>>
    ELSE InsertByTime(SortedByTime(SubSeq(rows, 1, Len(rows) - 1)), rows[Len(rows)])

\* new_q: the desired position, clipped when a positive cap is given (analyze.py:114-117).
ReplayNewQ(desired_q, max_inventory) ==
    IF max_inventory # None /\ Gt(max_inventory, Zero)
    THEN Max2(Neg(max_inventory), Min2(desired_q, max_inventory))
    ELSE desired_q

\* The mark of a row (analyze.py:121 and 169-172).
RowMark(r, price, mark_col) ==
    IF mark_col = None \/ r.mark = None THEN price ELSE r.mark

OutRow(r, price, size, q, ac, cash, realized, mark) ==
    [ timestamp |-> r.timestamp, side |-> r.side, price |-> price, size |-> size,
      position |-> q, avg_entry_price |-> ac, cash |-> cash, realized_pnl |-> realized,
      unrealized_pnl |-> Times(Minus(mark, ac), q),
      total_pnl |-> Plus(realized, Times(Minus(mark, ac), q)),
      mark_price |-> mark ]

\* A faulty net-buy branch: what opens or adds to a long is booked at the fill price, unblended.
NetBuyUnblended(q, ac, realized, dq, price) ==
    LET close == IF Lt(q, Zero) THEN Min2(Neg(q), dq) ELSE Zero
        real1 == IF Lt(q, Zero) THEN Plus(realized, Times(Minus(ac, price), close)) ELSE realized
        q1    == Plus(q, close)
        dq1   == Minus(dq, close)
        ac1   == IF Lt(q, Zero) /\ q1 = Zero THEN Zero ELSE ac
    IN  IF Gt(dq1, Zero)
        THEN [ q |-> Plus(q1, dq1), ac |-> price, realized |-> real1, dq |-> dq1 ]
        ELSE [ q |-> q1, ac |-> ac1, realized |-> real1, dq |-> dq1 ]

(* The net-buy branch (analyze.py:142-153): q, ac, realized and the local  *)
(* dq as the branch leaves them; dq is reduced by what closed a short.     *)
NetBuy(q, ac, realized, dq, price) ==
    LET close == IF Lt(q, Zero) THEN Min2(Neg(q), dq) ELSE Zero
        real1 == IF Lt(q, Zero) THEN Plus(realized, Times(Minus(ac, price), close)) ELSE realized
        q1    == Plus(q, close)
        dq1   == Minus(dq, close)
        ac1   == IF Lt(q, Zero) /\ q1 = Zero THEN Zero ELSE ac
        new_long == Plus(q1, dq1)
    IN  IF Gt(dq1, Zero)
        THEN [ q |-> new_long,
               ac |-> IF new_long # Zero THEN Over(Plus(Times(q1, ac1), Times(dq1, price)), new_long) ELSE Zero,
               realized |-> real1, dq |-> dq1 ]
        ELSE [ q |-> q1, ac |-> ac1, realized |-> real1, dq |-> dq1 ]

\* A faulty net-sell branch: closing a long books (ac - price) instead of (price - ac).
NetSellWrongSign(q, ac, realized, dq, price) ==
    LET sell_qty == Neg(dq)
        close == IF Gt(q, Zero) THEN Min2(q, sell_qty) ELSE Zero
        real1 == IF Gt(q, Zero) THEN Plus(realized, Times(Minus(ac, price), close)) ELSE realized
        q1    == Minus(q, close)
        sell1 == Minus(sell_qty, close)
        ac1   == IF Gt(q, Zero) /\ q1 = Zero THEN Zero ELSE ac
        new_short == Plus(Neg(q1), sell1)
    IN  IF Gt(sell1, Zero)
        THEN [ q |-> Minus(q1, sell1),
               ac |-> IF new_short # Zero THEN Over(Plus(Times(Neg(q1), ac1), Times(sell1, price)), new_short) ELSE Zero,
               realized |-> real1, dq |-> dq ]
        ELSE [ q |-> q1, ac |-> ac1, realized |-> real1, dq |-> dq ]

(* The net-sell branch (analyze.py:155-167): it works on sell_qty and      *)
(* leaves dq as it was.                                                    *)
NetSell(q, ac, realized, dq, price) ==
    LET sell_qty == Neg(dq)
        close == IF Gt(q, Zero) THEN Min2(q, sell_qty) ELSE Zero
        real1 == IF Gt(q, Zero) THEN Plus(realized, Times(Minus(price, ac), close)) ELSE realized
        q1    == Minus(q, close)
        sell1 == Minus(sell_qty, close)
        ac1   == IF Gt(q, Zero) /\ q1 = Zero THEN Zero ELSE ac
        new_short == Plus(Neg(q1), sell1)
    IN  IF Gt(sell1, Zero)
        THEN [ q |-> Minus(q1, sell1),
               ac |-> IF new_short # Zero THEN Over(Plus(Times(Neg(q1), ac1), Times(sell1, price)), new_short) ELSE Zero,
               realized |-> real1, dq |-> dq ]
        ELSE [ q |-> q1, ac |-> ac1, realized |-> real1, dq |-> dq ]

\* One row of the replay with a fill the cap absorbs leaving no output row.
ReplayRowDropAbsorbed(acc, r, mark_col, max_inventory) ==
    LET price == r.price
        size  == IF IsFinite(r.size) THEN AbsQ(r.size) ELSE NaN
    IN  IF ~(IsFinite(price) /\ IsFinite(size)) THEN acc
        ELSE
        LET desired_q == IF r.side = "buy" THEN Plus(acc.q, size) ELSE Minus(acc.q, size)
            new_q == ReplayNewQ(desired_q, max_inventory)
            dq    == Minus(new_q, acc.q)
            mark  == RowMark(r, price, mark_col)
        IN  IF dq = Zero
            THEN acc
            ELSE
            LET cash2 == Minus(acc.cash, Times(dq, price))
                b == IF Gt(dq, Zero) THEN NetBuy(acc.q, acc.ac, acc.realized, dq, price)
                     ELSE NetSell(acc.q, acc.ac, acc.realized, dq, price)
            IN  [ q |-> b.q, ac |-> b.ac, cash |-> cash2, realized |-> b.realized,
                  out |-> Append(acc.out, OutRow(r, price, AbsQ(b.dq), b.q, b.ac, cash2, b.realized, mark)) ]

(* One turn of the loop over the sorted rows (analyze.py:104-190): acc is  *)
(* the running q, ac, cash, realized and the rows emitted so far.          *)
ReplayRow(acc, r, mark_col, max_inventory) ==
    LET price == r.price
        size  == IF IsFinite(r.size) THEN AbsQ(r.size) ELSE NaN
    IN  IF ~(IsFinite(price) /\ IsFinite(size)) THEN acc
        ELSE
        LET desired_q == IF r.side = "buy" THEN Plus(acc.q, size) ELSE Minus(acc.q, size)
            new_q == ReplayNewQ(desired_q, max_inventory)
            dq    == Minus(new_q, acc.q)
            mark  == RowMark(r, price, mark_col)
        IN  IF dq = Zero
            THEN [ acc EXCEPT !.out = Append(@, OutRow(r, price, Zero, acc.q, acc.ac, acc.cash, acc.realized, mark)) ]
            ELSE
            LET cash2 == Minus(acc.cash, Times(dq, price))
                b == IF Gt(dq, Zero) THEN NetBuy(acc.q, acc.ac, acc.realized, dq, price)
                     ELSE NetSell(acc.q, acc.ac, acc.realized, dq, price)
            IN  [ q |-> b.q, ac |-> b.ac, cash |-> cash2, realized |-> b.realized,
                  out |-> Append(acc.out, OutRow(r, price, AbsQ(b.dq), b.q, b.ac, cash2, b.realized, mark)) ]

RECURSIVE ReplayRows(_, _, _, _)
ReplayRows(acc, rows, mark_col, max_inventory) ==
    IF rows = <<>> THEN acc
    ELSE ReplayRows(ReplayRow(acc, Head(rows), mark_col, max_inventory), Tail(rows), mark_col, max_inventory)

(* compute_pnl_from_trades: the list of output rows.                       *)
ComputePnlFromTrades(trades_rows, mark_col, max_inventory) ==
    IF trades_rows = <<>> THEN <<>>
    ELSE ReplayRows([q |-> Zero, ac |-> Zero, cash |-> Zero, realized |-> Zero, out |-> <<>>],
                    SortedByTime(trades_rows), mark_col, max_inventory).out

\* No run of the reconstructor yet.
NoReplay == [trades_rows |-> <<>>, mark_col |-> None, max_inventory |-> None, out |-> <<>>, done |-> FALSE]

-----------------------------------------------------------------------------
(* src/strategy.py: Quote, MarketMakingConfig, SimpleMarketMaker.          *)

Quote(side, price, size, timestamp) ==
    [ side |-> side, price |-> price, size |-> size, timestamp |-> timestamp ]

(* MarketMakingConfig with the source's defaults, except the two sizes the *)
(* caller scales to the model's prices (about 100 USD) and quantities      *)
(* (whole BTC): base_order_size and max_notional_exposure.  The refresh    *)
(* interval of 0.1 s is 2 units of the clock.                              *)
MarketMakingConfig(base_order_size, max_notional_exposure) ==
    [ base_spread_bps |-> I(10), min_spread_bps |-> I(5), max_spread_bps |-> I(50),
      base_order_size |-> base_order_size, max_order_size |-> I(1),
      max_notional_exposure |-> max_notional_exposure, max_loss_allowed |-> I(100000),
      quote_refresh_interval |-> 2, tick_size |-> Q(1, 100),
      asym_deadband_pct |-> Q(1, 5), asym_bps_step |-> I(2) ]

\* SimpleMarketMaker.__init__
SimpleMarketMaker(config) ==
    [ config |-> config, is_active |-> FALSE, last_quote_time |-> 0,
      current_bid |-> None, current_ask |-> None,
      quotes_posted |-> 0, quotes_updated |-> 0 ]

CalculateFairPrice(bids, asks) ==
    IF bids = <<>> \/ asks = <<>> THEN None
    ELSE IF Le(asks[1].price, bids[1].price) THEN None
    ELSE Over(Plus(bids[1].price, asks[1].price), I(2))

CalculateOrderSize(config) == Max2(Q(1, 100), Min2(config.base_order_size, config.max_order_size))

\* _check_risk_limits also refusing metrics that sit exactly on a limit.
CheckRiskLimitsAtLimit(config, current_position, total_pnl, current_price) ==
    \/ Ge(Times(AbsQ(current_position), current_price), config.max_notional_exposure)
    \/ Le(total_pnl, Neg(config.max_loss_allowed))

CheckRiskLimits(config, current_position, total_pnl, current_price) ==
    \/ Gt(Times(AbsQ(current_position), current_price), config.max_notional_exposure)
    \/ Lt(total_pnl, Neg(config.max_loss_allowed))

\* The skew offset with the second tier ending at 0.50 instead of 0.60.
OffBpsTierAtHalf(config, expo_abs) ==
    IF Le(expo_abs, config.asym_deadband_pct) THEN Zero
    ELSE IF Le(expo_abs, Q(2, 5)) THEN config.asym_bps_step
    ELSE IF Le(expo_abs, Q(1, 2)) THEN Times(I(2), config.asym_bps_step)
    ELSE Times(I(3), config.asym_bps_step)

\* The skew offset in basis points for |expo|.
OffBps(config, expo_abs) ==
    IF Le(expo_abs, config.asym_deadband_pct) THEN Zero
    ELSE IF Le(expo_abs, Q(2, 5)) THEN config.asym_bps_step
    ELSE IF Le(expo_abs, Q(3, 5)) THEN Times(I(2), config.asym_bps_step)
    ELSE Times(I(3), config.asym_bps_step)

\* generate_quotes once the fair price is known and the risk gate lets it proceed.
SkewedQuotes(config, best_bid, best_ask, fair_price, current_position, t) ==
    IF config.max_notional_exposure = Zero THEN ZeroDivisionError
    ELSE
    LET notional_exposure == Times(AbsQ(current_position), fair_price)
        expo     == Over(notional_exposure, config.max_notional_exposure)
        off_bps  == OffBps(config, AbsQ(expo))
        off_usd  == Over(Times(fair_price, off_bps), I(10000))
        ask_price == IF Gt(off_bps, Zero) /\ Gt(expo, Zero)
                     THEN Max2(Plus(best_bid, config.tick_size), Minus(best_ask, off_usd))
                     ELSE best_ask
        bid_price == IF Gt(off_bps, Zero) /\ ~Gt(expo, Zero) /\ Lt(expo, Zero)
                     THEN Min2(Minus(best_ask, config.tick_size), Plus(best_bid, off_usd))
                     ELSE best_bid
        size == CalculateOrderSize(config)
    IN  [ bid |-> IF Gt(size, Q(1, 100)) THEN Quote("bid", bid_price, size, t) ELSE None,
          ask |-> IF Gt(size, Q(1, 100)) THEN Quote("ask", ask_price, size, t) ELSE None ]

GenerateQuotes(config, bids, asks, current_position, total_pnl, t) ==
    LET fair_price == CalculateFairPrice(bids, asks)
    IN  IF fair_price = None THEN [bid |-> None, ask |-> None]
        ELSE IF CheckRiskLimits(config, current_position, total_pnl, fair_price) THEN [bid |-> None, ask |-> None]
        ELSE SkewedQuotes(config, bids[1].price, asks[1].price, fair_price, current_position, t)

\* should_update_quotes also answering yes when exactly one interval has passed.
ShouldUpdateQuotesAtInterval(mm, t) == t - mm.last_quote_time >= mm.config.quote_refresh_interval

ShouldUpdateQuotes(mm, t) == t - mm.last_quote_time > mm.config.quote_refresh_interval

QuoteChanged(old_quote, new_quote) ==
    IF old_quote = None /\ new_quote = None THEN FALSE
    ELSE IF old_quote = None \/ new_quote = None THEN TRUE
    ELSE \/ Gt(AbsQ(Minus(old_quote.price, new_quote.price)), Q(1, 100))
         \/ Gt(AbsQ(Minus(old_quote.size, new_quote.size)), Q(1, 100))

\* update_quotes replacing only the quote that changed.
UpdateQuotesChangedSideOnly(mm, bids, asks, current_position, total_pnl, t) ==
    IF ~ShouldUpdateQuotes(mm, t) THEN [mm |-> mm, ret |-> [bid |-> None, ask |-> None]]
    ELSE LET new == GenerateQuotes(mm.config, bids, asks, current_position, total_pnl, t)
             bid_changed == QuoteChanged(mm.current_bid, new.bid)
             ask_changed == QuoteChanged(mm.current_ask, new.ask)
         IN  IF new = ZeroDivisionError THEN [mm |-> mm, ret |-> ZeroDivisionError]
             ELSE IF bid_changed \/ ask_changed
             THEN [ mm |-> [mm EXCEPT !.current_bid = IF bid_changed THEN new.bid ELSE @,
                                      !.current_ask = IF ask_changed THEN new.ask ELSE @,
                                      !.last_quote_time = t, !.quotes_updated = @ + 1],
                    ret |-> new ]
             ELSE [mm |-> mm, ret |-> [bid |-> None, ask |-> None]]

\* update_quotes: the maker after the call and the pair it returns.
UpdateQuotes(mm, bids, asks, current_position, total_pnl, t) ==
    IF ~ShouldUpdateQuotes(mm, t) THEN [mm |-> mm, ret |-> [bid |-> None, ask |-> None]]
    ELSE LET new == GenerateQuotes(mm.config, bids, asks, current_position, total_pnl, t)
         IN  IF new = ZeroDivisionError THEN [mm |-> mm, ret |-> ZeroDivisionError]
             ELSE IF QuoteChanged(mm.current_bid, new.bid) \/ QuoteChanged(mm.current_ask, new.ask)
             THEN [ mm |-> [mm EXCEPT !.current_bid = new.bid, !.current_ask = new.ask,
                                      !.last_quote_time = t, !.quotes_updated = @ + 1],
                    ret |-> new ]
             ELSE [mm |-> mm, ret |-> [bid |-> None, ask |-> None]]

\* SimpleMarketMaker.start
StartMaker(mm) == [mm EXCEPT !.is_active = TRUE, !.quotes_posted = 0, !.quotes_updated = 0]

\* SimpleMarketMaker.stop
StopMaker(mm) == [mm EXCEPT !.is_active = FALSE, !.current_bid = None, !.current_ask = None]

-----------------------------------------------------------------------------
(* src/spread.py: SpreadAnalyzer, as far as the feed handlers drive it.    *)

OrderBookLevel(price, size) == [price |-> price, size |-> size]

\* The cost of taking target_size from one side of the book, level by level.
RECURSIVE WalkSide(_, _, _)
WalkSide(levels, remaining_size, total_cost) ==
    IF levels = <<>> \/ Le(remaining_size, Zero) THEN [remaining |-> remaining_size, cost |-> total_cost]
    ELSE LET size_to_take == Min2(remaining_size, levels[1].size)
         IN  WalkSide(Tail(levels), Minus(remaining_size, size_to_take),
                      Plus(total_cost, Times(size_to_take, levels[1].price)))

\* The average price of a side with the unfilled remainder charged at the best level's price.
SideAvgPriceRemainderAtBest(levels, target_size) ==
    LET w == WalkSide(levels, target_size, Zero)
        total_cost == IF Gt(w.remaining, Zero)
                      THEN Plus(w.cost, Times(w.remaining, levels[1].price))
                      ELSE w.cost
    IN  IF Gt(target_size, Zero) THEN Over(total_cost, target_size) ELSE Zero

SideAvgPrice(levels, target_size) ==
    LET w == WalkSide(levels, target_size, Zero)
        total_cost == IF Gt(w.remaining, Zero)
                      THEN Plus(w.cost, Times(w.remaining, levels[Len(levels)].price))
                      ELSE w.cost
    IN  IF Gt(target_size, Zero) THEN Over(total_cost, target_size) ELSE Zero

CalculateSpreadForSize(bids, asks, target_size) ==
    IF bids = <<>> \/ asks = <<>> THEN Zero
    ELSE Minus(SideAvgPrice(asks, target_size), SideAvgPrice(bids, target_size))

\* SpreadAnalyzer._ratio
Ratio(bid_vol, ask_vol) ==
    LET denom == Plus(bid_vol, ask_vol)
    IN  IF Le(denom, Zero) THEN Zero ELSE Over(Minus(bid_vol, ask_vol), denom)

RECURSIVE SumSizes(_, _)
\* sum(l.size for l in side[:levels])
SumSizes(side, levels) ==
    IF side = <<>> \/ levels <= 0 THEN Zero
    ELSE Plus(side[1].size, SumSizes(Tail(side), levels - 1))

CalcImbalanceLevels(bids, asks, levels) ==
    IF bids = <<>> \/ asks = <<>> THEN Zero
    ELSE Ratio(SumSizes(bids, levels), SumSizes(asks, levels))

RECURSIVE TakeVolume(_, _, _)
\* The volume taken from one side until target_btc is reached.
TakeVolume(side, rem, vol) ==
    IF side = <<>> \/ Le(rem, Zero) THEN vol
    ELSE LET take == Min2(rem, side[1].size)
         IN  TakeVolume(Tail(side), Minus(rem, take), Plus(vol, take))

CalcImbalanceVolume(bids, asks, target_btc) ==
    IF bids = <<>> \/ asks = <<>> \/ Le(target_btc, Zero) THEN Zero
    ELSE Ratio(TakeVolume(bids, target_btc, Zero), TakeVolume(asks, target_btc, Zero))

(* The rolling window of the analyzer (100 in the source) and the          *)
(* dashboard's recent_trades buffer (10 in the source), scaled down.       *)

SpreadWindow == 1

RecentTradesMaxlen == 1

(* SpreadAnalyzer.__init__ and update_spreads, for the configured size     *)
(* 1.0: the rolling buffer.  The other sizes repeat it; the timestamps and *)
(* the unbounded full logs are written here and read only by the export.   *)
SpreadAnalyzer == [spread_history |-> <<>>]

UpdateSpreads(sa, bids, asks) ==
    [sa EXCEPT !.spread_history = DequeAppend(@, CalculateSpreadForSize(bids, asks, I(1)), SpreadWindow)]

\* The sizes the analyzer keeps a history for: 0.1, 1.0, 5.0 and 10.0.
SpreadSizes == { Q(1, 10), I(1), I(5), I(10) }

(* SpreadAnalyzer.__init__ with all its buffers: the rolling timestamps    *)
(* and per-size spread_history of maxlen window_size, and the unbounded    *)
(* timestamps_full and per-size spread_history_full.                       *)
NewSpreadAnalyzer(window_size) ==
    [ window_size         |-> window_size,
      timestamps          |-> <<>>,
      spread_history      |-> [size \in SpreadSizes |-> <<>>],
      timestamps_full     |-> <<>>,
      spread_history_full |-> [size \in SpreadSizes |-> <<>>] ]

\* A faulty update_spreads: the full logs are rolling buffers as well.
UpdateAllSpreadsFullRolling(sa, bids, asks, t) ==
    [ sa EXCEPT
        !.timestamps          = DequeAppend(@, t, sa.window_size),
        !.timestamps_full     = DequeAppend(@, t, sa.window_size),
        !.spread_history      = [size \in SpreadSizes |->
                                    DequeAppend(@[size], CalculateSpreadForSize(bids, asks, size), sa.window_size)],
        !.spread_history_full = [size \in SpreadSizes |->
                                    DequeAppend(@[size], CalculateSpreadForSize(bids, asks, size), sa.window_size)] ]

(* update_spreads on all the buffers, at clock reading t (the two reads of *)
(* time.time() fall in one unit of the clock): UpdateSpreads above is its  *)
(* spread_history[1.0].                                                    *)
UpdateAllSpreads(sa, bids, asks, t) ==
    [ sa EXCEPT
        !.timestamps          = DequeAppend(@, t, sa.window_size),
        !.timestamps_full     = Append(@, t),
        !.spread_history      = [size \in SpreadSizes |->
                                    DequeAppend(@[size], CalculateSpreadForSize(bids, asks, size), sa.window_size)],
        !.spread_history_full = [size \in SpreadSizes |->
                                    Append(@[size], CalculateSpreadForSize(bids, asks, size))] ]

-----------------------------------------------------------------------------
(* src/dashboard.py: TradingDashboard's feed handlers and shutdown.        *)

GetPortfolioSummary(pf) ==
    IF pf.max_inventory = Zero THEN ZeroDivisionError
    ELSE
    [ btc_balance |-> pf.state.q, usd_balance |-> pf.state.usd_balance,
      avg_entry_price |-> pf.state.avg_entry_price,
      realized_pnl |-> pf.state.cash, unrealized_pnl |-> pf.state.nav, total_pnl |-> pf.state.pnl,
      total_trades |-> pf.state.total_trades, recent_fills |-> pf.recent_fills,
      total_btc_bought |-> pf.state.total_btc_bought, total_btc_sold |-> pf.state.total_btc_sold,
      total_usd_spent |-> pf.state.total_usd_spent, total_usd_received |-> pf.state.total_usd_received,
      notional_exposure |-> AbsQ(pf.state.nav),
      cash |-> pf.state.cash, position_q |-> pf.state.q, nav |-> pf.state.nav,
      inventory_utilization |-> Times(Over(AbsQ(pf.state.q), pf.max_inventory), I(100)) ]

\* TradingDashboard.__init__: the feed view before any event.
NoFeed == [bids |-> <<>>, asks |-> <<>>, recent_trades |-> <<>>, spread_analyzer |-> SpreadAnalyzer]

(* update_unrealized_pnl: with both sides present, mark the ledger at the  *)
(* mid and refresh the quotes.  The legacy Position is never non-zero, so  *)
(* its branch does nothing.                                                *)
UpdateUnrealizedPnl(pf, mm, bids, asks, t) ==
    IF bids # <<>> /\ asks # <<>>
    THEN LET current_price == Over(Plus(asks[1].price, bids[1].price), I(2))
             pf1 == UpdateNavAndPnl(pf, current_price)
             portfolio_state == GetPortfolioSummary(pf1)
         IN  [ pf |-> pf1,
               mm |-> UpdateQuotes(mm, bids, asks, portfolio_state.btc_balance,
                                   portfolio_state.total_pnl, t).mm ]
    ELSE [pf |-> pf, mm |-> mm]

\* on_orderbook_update, the body of its `with self.data_lock`.
OnOrderbookUpdate(fd, pf, mm, bids, asks, t) ==
    LET r == UpdateUnrealizedPnl(pf, mm, bids, asks, t)
    IN  [ feed |-> [fd EXCEPT !.bids = bids, !.asks = asks,
                              !.spread_analyzer = UpdateSpreads(@, bids, asks)],
          pf |-> r.pf, mm |-> r.mm ]

\* on_trade_update after the append: the fill simulation against the quotes held, if the maker is active.
TradeFill(pf, mm, trade, t) ==
    LET our_bid_price == IF mm.current_bid # None THEN mm.current_bid.price ELSE None
        our_ask_price == IF mm.current_ask # None THEN mm.current_ask.price ELSE None
        our_bid_size  == IF mm.current_bid # None THEN mm.current_bid.size ELSE Zero
        our_ask_size  == IF mm.current_ask # None THEN mm.current_ask.size ELSE Zero
    IN  IF mm.is_active
        THEN SimulateFillFromTrade(pf, trade, our_bid_price, our_ask_price, our_bid_size, our_ask_size, t)
        ELSE [pf |-> pf, ret |-> None]

\* on_trade_update, the body of its `with self.data_lock`.
OnTradeUpdate(fd, pf, mm, trade, t) ==
    LET r == TradeFill(pf, mm, trade, t)
    IN  [ feed |-> [fd EXCEPT !.recent_trades = DequeAppend(@, trade, RecentTradesMaxlen)],
          pf |-> r.pf, fill |-> r.ret ]

\* A faulty handler entry: the body runs without `with self.data_lock`.
FeedEnterNoLock(lock) == lock

\* `with self.data_lock:` in a feed handler, entered once the lock is free.
FeedEnter(lock) == "feed"

\* The panels of one frame, in the order render() builds them.
Panels == <<"header", "orderbook", "trades", "portfolio", "strategy", "analytics", "footer">>

\* create_header reads only the transport's is_running flag and takes no lock; the others take the data lock.
PanelLocks(panel) == panel # "header"

\* SimpleMarketMaker.get_strategy_status
GetStrategyStatus(mm) ==
    [ active |-> mm.is_active, quotes_posted |-> mm.quotes_posted, quotes_updated |-> mm.quotes_updated,
      current_bid |-> mm.current_bid, current_ask |-> mm.current_ask, last_update |-> mm.last_quote_time ]

\* The shared data a panel reads inside its `with self.data_lock`.
PanelReads(panel, fd, pf, mm) ==
    CASE panel = "orderbook" -> [bids |-> fd.bids, asks |-> fd.asks]
      [] panel = "trades"    -> [recent_trades |-> fd.recent_trades]
      [] panel = "portfolio" -> [summary |-> GetPortfolioSummary(pf), bids |-> fd.bids, asks |-> fd.asks]
      [] panel = "strategy"  -> [status |-> GetStrategyStatus(mm)]
      [] panel = "analytics" -> [spreads |-> fd.spread_analyzer.spread_history]
      [] panel = "footer"    -> [bids |-> fd.bids, asks |-> fd.asks]
      [] OTHER               -> None

\* A faulty portfolio panel: it marks the ledger at the mid before it shows it.
RenderPanelMarking(panel, fd, pf, mm) ==
    LET pf1 == IF panel = "portfolio" /\ fd.bids # <<>> /\ fd.asks # <<>>
               THEN UpdateNavAndPnl(pf, Over(Plus(fd.asks[1].price, fd.bids[1].price), I(2)))
               ELSE pf
    IN  [pf |-> pf1, mm |-> mm, view |-> PanelReads(panel, fd, pf1, mm)]

\* A create_*_panel call of render(): the ledger and the maker as it leaves them, and what it read.
RenderPanel(panel, fd, pf, mm) ==
    [pf |-> pf, mm |-> mm, view |-> PanelReads(panel, fd, pf, mm)]

-----------------------------------------------------------------------------
(* The trades CSV between the ledger and the reconstructor.                *)

\* The first k decimal digits of r/d for 0 <= r < d, as an integer, and the remainder left.
RECURSIVE FracDigits(_, _, _, _)
FracDigits(r, d, k, acc) ==
    IF k = 0 THEN <<acc, r>>
    ELSE FracDigits((r * 10) % d, d, k - 1, acc * 10 + ((r * 10) \div d))

(* f"{x:.8f}" read back by parse_float: x rounded to 8 decimals, a tie to  *)
(* the even digit.                                                         *)
Fmt8(x) ==
    IF x = NaN THEN NaN
    ELSE LET a  == AbsInt(x[1])
             fd == FracDigits(a % x[2], x[2], 8, 0)
             up == \/ 2 * fd[2] > x[2]
                   \/ 2 * fd[2] = x[2] /\ fd[1] % 2 = 1
             m  == Plus(I(a \div x[2]), Q(fd[1] + (IF up THEN 1 ELSE 0), 100000000))
         IN  IF x[1] < 0 THEN Neg(m) ELSE m

(* datetime.fromtimestamp(t).isoformat() read back by parse_time_any: the  *)
(* time in whole microseconds (a unit of the clock is 50000 of them).      *)
IsoTime(t) == t * 50000

\* A faulty export: it walks recent_fills, the short display buffer, instead of fills_history.
ExportTradesCsvRecentFills(pf) ==
    [ i \in 1..Len(pf.recent_fills) |->
        Row(IsoTime(pf.recent_fills[i].timestamp), pf.recent_fills[i].side,
            Fmt8(pf.recent_fills[i].price), Fmt8(pf.recent_fills[i].size), None) ]

\* export_trades_csv, then load_csv: one row per fill of fills_history, oldest first.
ExportTradesCsv(pf) ==
    [ i \in 1..Len(pf.fills_history) |->
        Row(IsoTime(pf.fills_history[i].timestamp), pf.fills_history[i].side,
            Fmt8(pf.fills_history[i].price), Fmt8(pf.fills_history[i].size), None) ]

-----------------------------------------------------------------------------
(* SpecLedger: one PortfolioManager under any sequence of calls of         *)
(* simulate_fill_from_trade, process_fill_market_making and                *)
(* update_nav_and_pnl.                                                     *)

Sides == {"buy", "sell"}

FillPrices == {I(100), I(120)}

FillSizes == {Zero, I(1), I(2)}

MarkPrices == {I(100), I(110)}

TradeSizes == {Zero, I(1), I(2)}

\* The quotes handed to simulate_fill_from_trade: none held, or a held pair.
QuoteArgs ==
    { [bid_price |-> None, ask_price |-> None, bid_size |-> Zero, ask_size |-> Zero],
      [bid_price |-> I(100), ask_price |-> None, bid_size |-> I(1), ask_size |-> Zero],
      [bid_price |-> I(100), ask_price |-> I(120), bid_size |-> I(1), ask_size |-> I(2)] }

InitialUsd == I(1000000)

\* The threads are not modelled: every handler is one step.
NoThreads == <<>>

\* A maker that is constructed and never started: the ledger and the reconstructor are driven alone.
IdleMaker == SimpleMarketMaker(MarketMakingConfig(I(1), I(400)))

StartTime == 3

InitLedger ==
    /\ \E cap \in 1..MaxCap : portfolio = PortfolioManager(InitialUsd, I(cap))
    /\ now = StartTime
    /\ steps = 0
    /\ last = [op |-> "init"]
    /\ replay = NoReplay
    /\ feed = NoFeed
    /\ market_maker = IdleMaker
    /\ pc = "idle"
    /\ threads = NoThreads

CallProcessFill ==
    /\ steps < MaxOps
    /\ \E side \in Sides, price \in FillPrices, size \in FillSizes :
         LET fill == Fill(now, side, price, size)
         IN  /\ portfolio' = ProcessFillMarketMaking(portfolio, fill)
             /\ last' = [op |-> "process_fill", fill |-> fill, pre |-> portfolio]
    /\ steps' = steps + 1
    /\ UNCHANGED <<now, replay, feed, market_maker, pc, threads>>

CallSimulateFill ==
    /\ steps < MaxOps
    /\ \E side \in Sides, price \in FillPrices, size \in TradeSizes, qa \in QuoteArgs :
         LET trade == Trade(now, price, size, side)
             r == SimulateFillFromTrade(portfolio, trade, qa.bid_price, qa.ask_price, qa.bid_size, qa.ask_size, now)
         IN  /\ portfolio' = r.pf
             /\ last' = [op |-> "simulate_fill", trade |-> trade, quotes |-> qa, ret |-> r.ret, pre |-> portfolio]
    /\ steps' = steps + 1
    /\ UNCHANGED <<now, replay, feed, market_maker, pc, threads>>

CallUpdateNavAndPnl ==
    /\ steps < MaxOps
    /\ \E fair \in MarkPrices :
         /\ portfolio' = UpdateNavAndPnl(portfolio, fair)
         /\ last' = [op |-> "mark", fair |-> fair, pre |-> portfolio]
    /\ steps' = steps + 1
    /\ UNCHANGED <<now, replay, feed, market_maker, pc, threads>>

NextLedger == CallProcessFill \/ CallSimulateFill \/ CallUpdateNavAndPnl

SpecLedger == InitLedger /\ [][NextLedger]_vars


-----------------------------------------------------------------------------
(* SpecReplay: compute_pnl_from_trades applied to any trade log of at most *)
(* MaxRows rows, with and without a mark column and an inventory cap.      *)

ReplayPrices == {I(100), I(110), I(130)}

ReplaySizes == {I(1), I(2)}

ReplayMark == I(105)

\* What a CSV row says: a fill, or a row whose price does not parse.
RowKinds ==
    [side : Sides, price : ReplayPrices, size : ReplaySizes]
        \cup {[side |-> "buy", price |-> NaN, size |-> I(1)]}

\* Timestamps of the rows of a log: all equal, or strictly decreasing.
TimePatterns == {"tied", "decreasing"}

\* mark_col not given, or given with the column filled on every other row.
MarkModes == {"no_mark_col", "mark_col"}

\* max_inventory not given, or a cap smaller than the largest fill.
ReplayCaps == {None, I(1)}

TradeLog(kinds, tp, mm) ==
    [ i \in 1..Len(kinds) |->
        Row(IF tp = "tied" THEN 1 ELSE Len(kinds) + 1 - i,
            kinds[i].side, kinds[i].price, kinds[i].size,
            IF mm = "mark_col" /\ i % 2 = 1 THEN ReplayMark ELSE None) ]

SeqsUpTo(S, n) == UNION { [1..k -> S] : k \in 0..n }

IdlePortfolio == PortfolioManager(InitialUsd, I(1))

InitReplay ==
    /\ \E kinds \in SeqsUpTo(RowKinds, MaxRows), tp \in TimePatterns, mm \in MarkModes, cap \in ReplayCaps :
         replay = [ trades_rows |-> TradeLog(kinds, tp, mm),
                    mark_col |-> IF mm = "mark_col" THEN <<"fair_price">> ELSE None,
                    max_inventory |-> cap,
                    out |-> <<>>,
                    done |-> FALSE ]
    /\ portfolio = IdlePortfolio
    /\ now = StartTime
    /\ steps = 0
    /\ last = [op |-> "init"]
    /\ feed = NoFeed
    /\ market_maker = IdleMaker
    /\ pc = "idle"
    /\ threads = NoThreads

RunComputePnl ==
    /\ ~replay.done
    /\ replay' = [ replay EXCEPT
                     !.out = ComputePnlFromTrades(replay.trades_rows, replay.mark_col, replay.max_inventory),
                     !.done = TRUE ]
    /\ UNCHANGED <<portfolio, now, steps, last, feed, market_maker, pc, threads>>

NextReplay == RunComputePnl

SpecReplay == InitReplay /\ [][NextReplay]_vars

-----------------------------------------------------------------------------
(* SpecLive: the dashboard running on a feed of book and trade events,     *)
(* each handler taken as one step (C6), until the shutdown handler stops   *)
(* the maker and the feed and writes the exports; analyze.py then replays  *)
(* trades.csv with the ledger's inventory cap.                             *)

\* Feed events handled before shutdown.
MaxEvents == 4

\* Clock units that pass before shutdown.
MaxTicks == 3

Books ==
    { [bids |-> <<>>, asks |-> <<>>],
      [bids |-> <<OrderBookLevel(I(100), I(2))>>, asks |-> <<OrderBookLevel(I(120), I(2))>>],
      [bids |-> <<OrderBookLevel(I(110), Q(1, 2)), OrderBookLevel(I(100), I(1))>>,
       asks |-> <<OrderBookLevel(I(120), I(2))>>] }

\* A sell through both bids, a buy at the ask, a buy below the ask.
LiveTrades ==
    { [price |-> I(100), size |-> I(2), side |-> "sell"],
      [price |-> I(120), size |-> I(1), side |-> "buy"],
      [price |-> I(100), size |-> I(1), side |-> "buy"] }

\* The exchange's event time of a trade: carried by the Trade and read by nothing.
ExchangeTime == <<"T">>

\* The ledger's inventory cap: one order, or two.
LiveCaps == {I(1), I(2)}

\* Orders of 1 BTC and a notional limit of 400 USD: 1 BTC is in the first skew tier, 2 BTC in the second.
LiveConfigs == { MarketMakingConfig(I(1), I(400)) }

\* TradingDashboard.__init__: a ledger, a maker that is started at once, an empty view.
InitLive ==
    /\ \E cap \in LiveCaps : portfolio = PortfolioManager(InitialUsd, cap)
    /\ \E config \in LiveConfigs : market_maker = StartMaker(SimpleMarketMaker(config))
    /\ feed = NoFeed
    /\ pc = "running"
    /\ now = StartTime
    /\ steps = 0
    /\ last = [op |-> "init"]
    /\ replay = NoReplay
    /\ threads = NoThreads

BookEvent ==
    /\ pc = "running"
    /\ steps < MaxEvents
    /\ \E b \in Books :
         LET r == OnOrderbookUpdate(feed, portfolio, market_maker, b.bids, b.asks, now)
         IN  /\ feed' = r.feed
             /\ portfolio' = r.pf
             /\ market_maker' = r.mm
             /\ last' = [ op |-> "book", bids |-> b.bids, asks |-> b.asks,
                          due |-> ShouldUpdateQuotes(market_maker, now) ]
    /\ steps' = steps + 1
    /\ UNCHANGED <<now, replay, pc, threads>>

TradeEvent ==
    /\ pc = "running"
    /\ steps < MaxEvents
    /\ \E tr \in LiveTrades :
         LET r == OnTradeUpdate(feed, portfolio, market_maker, Trade(ExchangeTime, tr.price, tr.size, tr.side), now)
         IN  /\ feed' = r.feed
             /\ portfolio' = r.pf
             /\ last' = [op |-> "trade", fill |-> r.fill]
    /\ steps' = steps + 1
    /\ UNCHANGED <<now, replay, market_maker, pc, threads>>

\* time.time() advances.
Tick ==
    /\ pc = "running"
    /\ now < StartTime + MaxTicks
    /\ now' = now + 1
    /\ last' = [op |-> "tick"]
    /\ UNCHANGED <<portfolio, steps, replay, feed, market_maker, pc, threads>>

(* The KeyboardInterrupt handler of start(): market_maker.stop(),          *)
(* ws_client.stop(), export_trades_csv("trades.csv").  The P&L and spread  *)
(* exports that follow write files nothing here reads.                     *)
Shutdown ==
    /\ pc = "running"
    /\ market_maker' = StopMaker(market_maker)
    /\ replay' = [NoReplay EXCEPT !.trades_rows = ExportTradesCsv(portfolio),
                                  !.max_inventory = portfolio.max_inventory]
    /\ pc' = "stopped"
    /\ last' = [op |-> "shutdown"]
    /\ UNCHANGED <<portfolio, now, steps, feed, threads>>

\* analyze.py --trades trades.csv --max-inventory <the ledger's cap>
RunAnalyze ==
    /\ pc = "stopped"
    /\ replay' = [ replay EXCEPT
                     !.out = ComputePnlFromTrades(replay.trades_rows, replay.mark_col, replay.max_inventory),
                     !.done = TRUE ]
    /\ pc' = "replayed"
    /\ last' = [op |-> "analyze"]
    /\ UNCHANGED <<portfolio, now, steps, feed, market_maker, threads>>

NextLive == BookEvent \/ TradeEvent \/ Tick \/ Shutdown \/ RunAnalyze

SpecLive == InitLive /\ [][NextLive]_vars

-----------------------------------------------------------------------------
(* SpecThreads: the feed thread (BinanceWebSocketClient's ws_thread, which *)
(* calls the two handlers one event at a time) and the main thread's       *)
(* render loop, statement by statement, around the one data lock.  The     *)
(* clock moves between handlers: a handler is far shorter than a unit.     *)

\* Feed events delivered while the render loop runs.
MaxFeedEvents == 2

FeedEvents ==
    { [kind |-> "book", bids |-> b.bids, asks |-> b.asks] : b \in Books }
    \cup { [kind |-> "trade", trade |-> Trade(ExchangeTime, tr.price, tr.size, tr.side)] : tr \in LiveTrades }

\* What the handlers have left behind: the state as of the last handler that returned.
Committed == [feed |-> feed, pf |-> portfolio, mm |-> market_maker]

InitThreads ==
    /\ \E cap \in LiveCaps : portfolio = PortfolioManager(InitialUsd, cap)
    /\ \E config \in LiveConfigs : market_maker = StartMaker(SimpleMarketMaker(config))
    /\ feed = NoFeed
    /\ pc = "running"
    /\ now = StartTime
    /\ steps = 0
    /\ last = [op |-> "init", actor |-> "feed"]
    /\ replay = NoReplay
    /\ threads = [ lock |-> "free", feed_pc |-> "idle", event |-> None, committed |-> Committed,
                   panel |-> 1, phase |-> "enter", view |-> None ]

\* One statement of the feed thread: it moves to feed_pc `next`.
FeedStatement(at, next) ==
    /\ threads.feed_pc = at
    /\ threads' = [threads EXCEPT !.feed_pc = next]
    /\ last' = [op |-> at, actor |-> "feed"]
    /\ UNCHANGED <<now, steps, replay, pc>>

\* on_message: an event arrives and its handler is called.
FeedReceive ==
    /\ threads.feed_pc = "idle"
    /\ steps < MaxFeedEvents
    /\ \E ev \in FeedEvents : threads' = [threads EXCEPT !.feed_pc = "acquire", !.event = ev]
    /\ steps' = steps + 1
    /\ last' = [op |-> "receive", actor |-> "feed"]
    /\ UNCHANGED <<portfolio, now, replay, feed, market_maker, pc>>

\* with self.data_lock: (entry)
FeedAcquire ==
    /\ threads.feed_pc = "acquire"
    /\ threads.lock = "free"
    /\ threads' = [threads EXCEPT !.lock = FeedEnter(@),
                                  !.feed_pc = IF threads.event.kind = "book" THEN "store_bids" ELSE "append_trade"]
    /\ last' = [op |-> "acquire", actor |-> "feed"]
    /\ UNCHANGED <<portfolio, now, steps, replay, feed, market_maker, pc>>

\* self.bids = bids[:10]
StoreBids ==
    /\ FeedStatement("store_bids", "store_asks")
    /\ feed' = [feed EXCEPT !.bids = threads.event.bids]
    /\ UNCHANGED <<portfolio, market_maker>>

\* self.asks = asks[:10]
StoreAsks ==
    /\ FeedStatement("store_asks", "update_spreads")
    /\ feed' = [feed EXCEPT !.asks = threads.event.asks]
    /\ UNCHANGED <<portfolio, market_maker>>

\* self.spread_analyzer.update_spreads(bids, asks)
FeedUpdateSpreads ==
    /\ FeedStatement("update_spreads", "mark")
    /\ feed' = [feed EXCEPT !.spread_analyzer = UpdateSpreads(@, threads.event.bids, threads.event.asks)]
    /\ UNCHANGED <<portfolio, market_maker>>

\* update_unrealized_pnl: self.portfolio.update_unrealized_pnl(current_price), if both sides are there
FeedMark ==
    /\ IF feed.bids # <<>> /\ feed.asks # <<>>
       THEN /\ FeedStatement("mark", "update_quotes")
            /\ portfolio' = UpdateNavAndPnl(portfolio, Over(Plus(feed.asks[1].price, feed.bids[1].price), I(2)))
       ELSE /\ FeedStatement("mark", "release")
            /\ UNCHANGED portfolio
    /\ UNCHANGED <<feed, market_maker>>

\* update_unrealized_pnl: get_portfolio_summary() and self.market_maker.update_quotes(...)
FeedUpdateQuotes ==
    /\ FeedStatement("update_quotes", "release")
    /\ LET portfolio_state == GetPortfolioSummary(portfolio)
       IN  market_maker' = UpdateQuotes(market_maker, feed.bids, feed.asks, portfolio_state.btc_balance,
                                        portfolio_state.total_pnl, now).mm
    /\ UNCHANGED <<portfolio, feed>>

\* self.recent_trades.append(trade)
AppendTrade ==
    /\ FeedStatement("append_trade", "simulate_fill")
    /\ feed' = [feed EXCEPT !.recent_trades = DequeAppend(@, threads.event.trade, RecentTradesMaxlen)]
    /\ UNCHANGED <<portfolio, market_maker>>

\* if self.market_maker.is_active: ... self.portfolio.simulate_fill_from_trade(...)
FeedSimulateFill ==
    /\ FeedStatement("simulate_fill", "release")
    /\ portfolio' = TradeFill(portfolio, market_maker, threads.event.trade, now).pf
    /\ UNCHANGED <<feed, market_maker>>

\* with self.data_lock: (exit); the handler returns.
FeedRelease ==
    /\ threads.feed_pc = "release"
    /\ threads' = [threads EXCEPT !.lock = "free", !.feed_pc = "idle", !.event = None, !.committed = Committed]
    /\ last' = [op |-> "release", actor |-> "feed"]
    /\ UNCHANGED <<portfolio, now, steps, replay, feed, market_maker, pc>>

NextPanel(i) == IF i = Len(Panels) THEN 1 ELSE i + 1

\* create_header: no lock, no shared data.
RenderHeader ==
    /\ ~PanelLocks(Panels[threads.panel])
    /\ threads' = [threads EXCEPT !.panel = NextPanel(@)]
    /\ last' = [op |-> "header", actor |-> "main", lock |-> threads.lock,
                pre |-> [pf |-> portfolio, mm |-> market_maker]]
    /\ UNCHANGED <<portfolio, now, steps, replay, feed, market_maker, pc>>

\* create_*: with self.data_lock: (entry)
RenderAcquire ==
    /\ PanelLocks(Panels[threads.panel])
    /\ threads.phase = "enter"
    /\ threads.lock = "free"
    /\ threads' = [threads EXCEPT !.lock = "main", !.phase = "locked"]
    /\ last' = [op |-> "acquire", actor |-> "main", lock |-> threads.lock,
                pre |-> [pf |-> portfolio, mm |-> market_maker]]
    /\ UNCHANGED <<portfolio, now, steps, replay, feed, market_maker, pc>>

\* create_*: the body of the with block.
RenderRead ==
    /\ threads.phase = "locked"
    /\ LET r == RenderPanel(Panels[threads.panel], feed, portfolio, market_maker)
       IN  /\ portfolio' = r.pf
           /\ market_maker' = r.mm
           /\ threads' = [threads EXCEPT !.phase = "read", !.view = r.view]
    /\ last' = [op |-> "read", actor |-> "main", lock |-> threads.lock,
                pre |-> [pf |-> portfolio, mm |-> market_maker]]
    /\ UNCHANGED <<now, steps, replay, feed, pc>>

\* create_*: with self.data_lock: (exit); after the footer, live.update and time.sleep(0.1) end the frame.
RenderRelease ==
    /\ threads.phase = "read"
    /\ threads' = [threads EXCEPT !.lock = "free", !.phase = "enter", !.view = None, !.panel = NextPanel(@)]
    /\ last' = [op |-> "release", actor |-> "main", lock |-> threads.lock,
                pre |-> [pf |-> portfolio, mm |-> market_maker]]
    /\ UNCHANGED <<portfolio, now, steps, replay, feed, market_maker, pc>>

\* time.time() advances between two handlers.
ThreadsTick ==
    /\ threads.feed_pc = "idle"
    /\ now < StartTime + MaxTicks
    /\ now' = now + 1
    /\ UNCHANGED <<portfolio, steps, last, replay, feed, market_maker, pc, threads>>

NextThreads ==
    \/ FeedReceive \/ FeedAcquire \/ StoreBids \/ StoreAsks \/ FeedUpdateSpreads \/ FeedMark
    \/ FeedUpdateQuotes \/ AppendTrade \/ FeedSimulateFill \/ FeedRelease
    \/ RenderHeader \/ RenderAcquire \/ RenderRead \/ RenderRelease
    \/ ThreadsTick

SpecThreads == InitThreads /\ [][NextThreads]_vars

-----------------------------------------------------------------------------
(* SpecQuotes: one SimpleMarketMaker under any sequence of calls of        *)
(* start, stop and update_quotes, with the clock moving between calls.     *)
(* `last` also carries the book, position and time of the update_quotes    *)
(* call before the last one (prev), if the two were consecutive, and       *)
(* whether stop() was called since the last start() (stopped).             *)

\* Calls of the maker's methods in one run.
MaxQuoteCalls == 3

\* Clock units that pass in one run: two refresh intervals and more.
MaxQuoteTicks == 6

\* An empty book, a book with mid 100, the same with the best bid 0.02 higher, a crossed book.
QuoteBooks ==
    { [bids |-> <<>>, asks |-> <<>>],
      [bids |-> <<OrderBookLevel(I(90), I(2))>>, asks |-> <<OrderBookLevel(I(110), I(2))>>],
      [bids |-> <<OrderBookLevel(Q(9002, 100), I(2))>>, asks |-> <<OrderBookLevel(I(110), I(2))>>],
      [bids |-> <<OrderBookLevel(I(110), I(2))>>, asks |-> <<OrderBookLevel(I(90), I(2))>>] }

(* The position and total P&L handed to update_quotes: at the notional     *)
(* limit (4 BTC at 100 USD), over it, at the loss limit, under it.         *)
QuoteMetrics ==
    { [position |-> I(4), total_pnl |-> Zero],
      [position |-> I(5), total_pnl |-> Zero],
      [position |-> Zero, total_pnl |-> I(-100000)],
      [position |-> Zero, total_pnl |-> I(-100001)] }

\* The quotes handed to _quote_changed: none, a bid at 90, and the same 0.01 or 0.02 dearer or larger.
QuotesCompared ==
    { None, Quote("bid", I(90), I(1), StartTime), Quote("bid", Q(9001, 100), I(1), StartTime),
      Quote("bid", Q(9002, 100), I(1), StartTime), Quote("bid", I(90), Q(101, 100), StartTime),
      Quote("bid", I(90), Q(102, 100), StartTime) }

InitQuotes ==
    /\ \E config \in LiveConfigs : market_maker = SimpleMarketMaker(config)
    /\ portfolio = IdlePortfolio
    /\ now = StartTime
    /\ steps = 0
    /\ last = [op |-> "init", stopped |-> FALSE]
    /\ replay = NoReplay
    /\ feed = NoFeed
    /\ pc = "idle"
    /\ threads = NoThreads

CallStart ==
    /\ steps < MaxQuoteCalls
    /\ market_maker' = StartMaker(market_maker)
    /\ last' = [op |-> "start", stopped |-> FALSE, pre |-> market_maker]
    /\ steps' = steps + 1
    /\ UNCHANGED <<portfolio, now, replay, feed, pc, threads>>

CallStop ==
    /\ steps < MaxQuoteCalls
    /\ market_maker' = StopMaker(market_maker)
    /\ last' = [op |-> "stop", stopped |-> TRUE, pre |-> market_maker]
    /\ steps' = steps + 1
    /\ UNCHANGED <<portfolio, now, replay, feed, pc, threads>>

CallUpdateQuotes ==
    /\ steps < MaxQuoteCalls
    /\ \E b \in QuoteBooks, m \in QuoteMetrics :
         LET r == UpdateQuotes(market_maker, b.bids, b.asks, m.position, m.total_pnl, now)
         IN  /\ market_maker' = r.mm
             /\ last' = [ op |-> "update_quotes", stopped |-> last.stopped, pre |-> market_maker,
                          bids |-> b.bids, asks |-> b.asks, position |-> m.position,
                          total_pnl |-> m.total_pnl, t |-> now, ret |-> r.ret,
                          breach |-> /\ ShouldUpdateQuotes(market_maker, now)
                                     /\ market_maker.current_bid # None
                                     /\ r.mm.current_bid = None
                                     /\ CalculateFairPrice(b.bids, b.asks) # None,
                          prev |-> IF last.op = "update_quotes"
                                   THEN [bids |-> last.bids, asks |-> last.asks, t |-> last.t,
                                         breach |-> last.breach]
                                   ELSE None ]
    /\ steps' = steps + 1
    /\ UNCHANGED <<portfolio, now, replay, feed, pc, threads>>

\* _quote_changed on its own, before anything else is called.
CallQuoteChanged ==
    /\ last.op = "init"
    /\ \E old_quote \in QuotesCompared, new_quote \in QuotesCompared :
         last' = [ op |-> "quote_changed", stopped |-> last.stopped, old_quote |-> old_quote,
                   new_quote |-> new_quote, ret |-> QuoteChanged(old_quote, new_quote) ]
    /\ steps' = steps + 1
    /\ UNCHANGED <<portfolio, now, replay, feed, market_maker, pc, threads>>

\* time.time() advances between two calls.
QuoteTick ==
    /\ now < StartTime + MaxQuoteTicks
    /\ now' = now + 1
    /\ UNCHANGED <<portfolio, steps, last, replay, feed, market_maker, pc, threads>>

NextQuotes == CallStart \/ CallStop \/ CallUpdateQuotes \/ CallQuoteChanged \/ QuoteTick

SpecQuotes == InitQuotes /\ [][NextQuotes]_vars

-----------------------------------------------------------------------------
(* SpecCalls: single calls of the functions that compute without keeping   *)
(* state: generate_quotes, calculate_spread_for_size, the two imbalance    *)
(* measures and get_portfolio_summary.  `last` records the arguments and   *)
(* what the call gave.                                                     *)

\* Levels on one side of a book handed to the spread analyzer.
MaxLevels == 2

\* Bid levels: 100 USD with 0.5, 1 or no BTC, 99 USD with 10 or 1 BTC, 98 USD with 1 BTC.
BidLevels ==
    { OrderBookLevel(I(100), Q(1, 2)), OrderBookLevel(I(100), I(1)), OrderBookLevel(I(100), Zero),
      OrderBookLevel(I(99), I(10)), OrderBookLevel(I(99), I(1)), OrderBookLevel(I(98), I(1)) }

\* Ask levels: 101 USD with 1, 0.5 or no BTC, 102 USD and 103 USD with 1 BTC.
AskLevels ==
    { OrderBookLevel(I(101), I(1)), OrderBookLevel(I(101), Q(1, 2)), OrderBookLevel(I(101), Zero),
      OrderBookLevel(I(102), I(1)), OrderBookLevel(I(103), I(1)) }

\* One side of a book, best price first: up to MaxLevels levels, the prices falling (bids) or rising (asks).
BookSides(levels, falling) ==
    { side \in SeqsUpTo(levels, MaxLevels) :
        \A i \in 1..(Len(side) - 1) :
            IF falling THEN Lt(side[i + 1].price, side[i].price) ELSE Lt(side[i].price, side[i + 1].price) }

\* The target sizes asked for: negative, zero, half a BTC, the configured 1.0 and 5.0.
TargetSizes == { I(-1), Zero, Q(1, 2), I(1), I(5) }

(* Makers with the notional limit at 400 USD and a base order size of 1,   *)
(* of the source's default 0.05, of 0.01, of 0.005 and of 2 (above         *)
(* max_order_size); and one with the limit at zero.                        *)
SkewConfigs ==
    { MarketMakingConfig(I(1), I(400)), MarketMakingConfig(Q(5, 100), I(400)),
      MarketMakingConfig(Q(1, 100), I(400)), MarketMakingConfig(Q(5, 1000), I(400)),
      MarketMakingConfig(I(2), I(400)), MarketMakingConfig(I(1), Zero) }

(* Books with mid 100: 20 USD wide and 0.02 USD wide; a book half a tick   *)
(* wide; an empty and a crossed book.                                      *)
SkewBooks ==
    { [bids |-> <<OrderBookLevel(I(90), I(2))>>, asks |-> <<OrderBookLevel(I(110), I(2))>>],
      [bids |-> <<OrderBookLevel(Q(9999, 100), I(2))>>, asks |-> <<OrderBookLevel(Q(10001, 100), I(2))>>],
      [bids |-> <<OrderBookLevel(I(100), I(2))>>, asks |-> <<OrderBookLevel(Q(100005, 1000), I(2))>>],
      [bids |-> <<>>, asks |-> <<>>],
      [bids |-> <<OrderBookLevel(I(110), I(2))>>, asks |-> <<OrderBookLevel(I(90), I(2))>>] }

(* Positions that put |expo| at 0, 0.2, 0.25, 0.4, 0.5, 0.6, 0.75, 1 and   *)
(* 1.25 of a 400 USD limit at a mid of 100, long and short.                *)
SkewPositions ==
    { Zero, Q(4, 5), I(1), Q(8, 5), I(2), Q(12, 5), I(3), I(4), I(5),
      Q(-4, 5), I(-1), Q(-8, 5), I(-2), Q(-12, 5), I(-3), I(-4), I(-5) }

\* Inventory caps given to PortfolioManager, zero among them.
SummaryCaps == { Zero, I(1), I(2) }

InitCalls ==
    /\ portfolio = IdlePortfolio
    /\ now = StartTime
    /\ steps = 0
    /\ last = [op |-> "init"]
    /\ replay = NoReplay
    /\ feed = NoFeed
    /\ market_maker = IdleMaker
    /\ pc = "idle"
    /\ threads = NoThreads

CallGenerateQuotes ==
    /\ last.op = "init"
    /\ \E config \in SkewConfigs, b \in SkewBooks, position \in SkewPositions :
         last' = [ op |-> "generate_quotes", config |-> config, bids |-> b.bids, asks |-> b.asks,
                   position |-> position, total_pnl |-> Zero,
                   fair_price |-> CalculateFairPrice(b.bids, b.asks),
                   ret |-> GenerateQuotes(config, b.bids, b.asks, position, Zero, now) ]
    /\ steps' = steps + 1
    /\ UNCHANGED <<portfolio, now, replay, feed, market_maker, pc, threads>>

CallCalculateSpreadForSize ==
    /\ last.op = "init"
    /\ \E bids \in BookSides(BidLevels, TRUE), asks \in BookSides(AskLevels, FALSE), target_size \in TargetSizes :
         last' = [ op |-> "calculate_spread_for_size", bids |-> bids, asks |-> asks,
                   target_size |-> target_size, ret |-> CalculateSpreadForSize(bids, asks, target_size) ]
    /\ steps' = steps + 1
    /\ UNCHANGED <<portfolio, now, replay, feed, market_maker, pc, threads>>

CallCalcImbalanceLevels ==
    /\ last.op = "init"
    /\ \E bids \in BookSides(BidLevels, TRUE), asks \in BookSides(AskLevels, FALSE), levels \in 1..MaxLevels :
         last' = [ op |-> "calc_imbalance_levels", bids |-> bids, asks |-> asks, levels |-> levels,
                   ret |-> CalcImbalanceLevels(bids, asks, levels) ]
    /\ steps' = steps + 1
    /\ UNCHANGED <<portfolio, now, replay, feed, market_maker, pc, threads>>

CallCalcImbalanceVolume ==
    /\ last.op = "init"
    /\ \E bids \in BookSides(BidLevels, TRUE), asks \in BookSides(AskLevels, FALSE), target_btc \in TargetSizes :
         last' = [ op |-> "calc_imbalance_volume", bids |-> bids, asks |-> asks, target_btc |-> target_btc,
                   ret |-> CalcImbalanceVolume(bids, asks, target_btc) ]
    /\ steps' = steps + 1
    /\ UNCHANGED <<portfolio, now, replay, feed, market_maker, pc, threads>>

\* get_portfolio_summary on a ledger that has taken one fill.
CallGetPortfolioSummary ==
    /\ last.op = "init"
    /\ \E cap \in SummaryCaps, side \in Sides, size \in FillSizes :
         LET pf == ProcessFillMarketMaking(PortfolioManager(InitialUsd, cap), Fill(now, side, I(100), size))
         IN  last' = [ op |-> "get_portfolio_summary", pf |-> pf, ret |-> GetPortfolioSummary(pf) ]
    /\ steps' = steps + 1
    /\ UNCHANGED <<portfolio, now, replay, feed, market_maker, pc, threads>>

NextCalls ==
    \/ CallGenerateQuotes
    \/ CallCalculateSpreadForSize
    \/ CallCalcImbalanceLevels
    \/ CallCalcImbalanceVolume
    \/ CallGetPortfolioSummary

SpecCalls == InitCalls /\ [][NextCalls]_vars

-----------------------------------------------------------------------------
(* SpecShutdown: the KeyboardInterrupt handler of TradingDashboard.start   *)
(* on the main thread against the feed's callbacks on the ws thread.  The  *)
(* handler calls market_maker.stop(), ws_client.stop() and the export      *)
(* without taking data_lock, so its statements interleave with the         *)
(* statements of on_trade_update, which holds the lock.  pc is the main    *)
(* thread's position; threads holds the callback's position, the locals it *)
(* has read, whether a callback raised, and the ledger's trade count when  *)
(* stop() returned.                                                        *)

\* Feed events received in one run.
MaxShutdownEvents == 3

\* The four conditional expressions on_trade_update reads the quotes with, in order.
QuoteReads ==
    << [local |-> "our_bid_price", quote |-> "current_bid", attr |-> "price", default |-> None],
       [local |-> "our_ask_price", quote |-> "current_ask", attr |-> "price", default |-> None],
       [local |-> "our_bid_size", quote |-> "current_bid", attr |-> "size", default |-> Zero],
       [local |-> "our_ask_size", quote |-> "current_ask", attr |-> "size", default |-> Zero] >>

\* The callback's locals before any quote is read.
NoLocals == [our_bid_price |-> None, our_ask_price |-> None, our_bid_size |-> Zero, our_ask_size |-> Zero]

InitShutdown ==
    /\ \E cap \in LiveCaps : portfolio = PortfolioManager(InitialUsd, cap)
    /\ \E config \in LiveConfigs : market_maker = StartMaker(SimpleMarketMaker(config))
    /\ feed = NoFeed
    /\ pc = "running"
    /\ now = StartTime
    /\ steps = 0
    /\ last = [op |-> "init"]
    /\ replay = NoReplay
    /\ threads = [ feed_pc |-> "idle", event |-> None, read |-> 1, tested |-> FALSE,
                   locals |-> NoLocals, raised |-> FALSE, trades_at_stop |-> -1 ]

\* The ws thread takes a message while the socket is open.
SocketOpen == pc \notin {"closed", "exported"}

\* on_orderbook_update, whole: the book update is not split here.
RacingBookEvent ==
    /\ threads.feed_pc = "idle"
    /\ SocketOpen
    /\ steps < MaxShutdownEvents
    /\ \E b \in Books :
         LET r == OnOrderbookUpdate(feed, portfolio, market_maker, b.bids, b.asks, now)
         IN  /\ feed' = r.feed
             /\ portfolio' = r.pf
             /\ market_maker' = r.mm
    /\ steps' = steps + 1
    /\ last' = [op |-> "book"]
    /\ UNCHANGED <<now, replay, pc, threads>>

\* on_trade_update is entered: self.recent_trades.append(trade)
RacingTradeReceive ==
    /\ threads.feed_pc = "idle"
    /\ SocketOpen
    /\ steps < MaxShutdownEvents
    /\ \E tr \in LiveTrades :
         LET trade == Trade(ExchangeTime, tr.price, tr.size, tr.side)
         IN  /\ threads' = [threads EXCEPT !.feed_pc = "check_active", !.event = trade,
                                           !.read = 1, !.tested = FALSE, !.locals = NoLocals]
             /\ feed' = [feed EXCEPT !.recent_trades = DequeAppend(@, trade, RecentTradesMaxlen)]
    /\ steps' = steps + 1
    /\ last' = [op |-> "receive"]
    /\ UNCHANGED <<portfolio, now, replay, market_maker, pc>>

\* if self.market_maker.is_active:
RacingCheckActive ==
    /\ threads.feed_pc = "check_active"
    /\ threads' = [threads EXCEPT !.feed_pc = IF market_maker.is_active THEN "read_quotes" ELSE "idle"]
    /\ last' = [op |-> "check_active"]
    /\ UNCHANGED <<portfolio, now, steps, replay, feed, market_maker, pc>>

\* `... if self.market_maker.current_bid else None`: the condition of the next conditional expression.
RacingTestQuote ==
    /\ threads.feed_pc = "read_quotes"
    /\ ~threads.tested
    /\ LET rd == QuoteReads[threads.read]
       IN  IF market_maker[rd.quote] # None
           THEN threads' = [threads EXCEPT !.tested = TRUE]
           ELSE threads' = [threads EXCEPT !.locals[rd.local] = rd.default,
                                           !.read = IF @ = Len(QuoteReads) THEN 1 ELSE @ + 1,
                                           !.feed_pc = IF threads.read = Len(QuoteReads) THEN "simulate" ELSE @]
    /\ last' = [op |-> "test_quote"]
    /\ UNCHANGED <<portfolio, now, steps, replay, feed, market_maker, pc>>

(* `self.market_maker.current_bid.price`: the quote is read again and its  *)
(* attribute taken; on None that raises AttributeError, which leaves the   *)
(* handler and is printed by handle_trade_update.                          *)
RacingLoadQuote ==
    /\ threads.feed_pc = "read_quotes"
    /\ threads.tested
    /\ LET rd == QuoteReads[threads.read]
       IN  IF market_maker[rd.quote] = None
           THEN threads' = [threads EXCEPT !.raised = TRUE, !.feed_pc = "idle", !.tested = FALSE, !.read = 1]
           ELSE threads' = [threads EXCEPT !.locals[rd.local] = market_maker[rd.quote][rd.attr],
                                           !.tested = FALSE,
                                           !.read = IF @ = Len(QuoteReads) THEN 1 ELSE @ + 1,
                                           !.feed_pc = IF threads.read = Len(QuoteReads) THEN "simulate" ELSE @]
    /\ last' = [op |-> "load_quote"]
    /\ UNCHANGED <<portfolio, now, steps, replay, feed, market_maker, pc>>

\* fill = self.portfolio.simulate_fill_from_trade(trade, our_bid_price, ...)
RacingSimulateFill ==
    /\ threads.feed_pc = "simulate"
    /\ LET l == threads.locals
           r == SimulateFillFromTrade(portfolio, threads.event, l.our_bid_price, l.our_ask_price,
                                      l.our_bid_size, l.our_ask_size, now)
       IN  /\ portfolio' = r.pf
           /\ last' = [op |-> "simulate", fill |-> r.ret]
    /\ threads' = [threads EXCEPT !.feed_pc = "idle"]
    /\ UNCHANGED <<now, steps, replay, feed, market_maker, pc>>

\* market_maker.stop(): self.is_active = False
StopSetInactive ==
    /\ pc = "running"
    /\ market_maker' = [market_maker EXCEPT !.is_active = FALSE]
    /\ pc' = "stop_bid"
    /\ last' = [op |-> "stop"]
    /\ UNCHANGED <<portfolio, now, steps, replay, feed, threads>>

\* market_maker.stop(): self.current_bid = None
StopClearBid ==
    /\ pc = "stop_bid"
    /\ market_maker' = [market_maker EXCEPT !.current_bid = None]
    /\ pc' = "stop_ask"
    /\ last' = [op |-> "stop"]
    /\ UNCHANGED <<portfolio, now, steps, replay, feed, threads>>

\* market_maker.stop(): self.current_ask = None, and stop() returns.
StopClearAsk ==
    /\ pc = "stop_ask"
    /\ market_maker' = [market_maker EXCEPT !.current_ask = None]
    /\ pc' = "stopped"
    /\ threads' = [threads EXCEPT !.trades_at_stop = portfolio.state.total_trades]
    /\ last' = [op |-> "stop"]
    /\ UNCHANGED <<portfolio, now, steps, replay, feed>>

\* self.ws_client.stop(): the socket is closed; the ws thread is not joined.
CloseSocket ==
    /\ pc = "stopped"
    /\ pc' = "closed"
    /\ last' = [op |-> "close"]
    /\ UNCHANGED <<portfolio, now, steps, replay, feed, market_maker, threads>>

\* self.portfolio.export_trades_csv("trades.csv")
ExportAtShutdown ==
    /\ pc = "closed"
    /\ replay' = [NoReplay EXCEPT !.trades_rows = ExportTradesCsv(portfolio),
                                  !.max_inventory = portfolio.max_inventory]
    /\ pc' = "exported"
    /\ last' = [op |-> "export"]
    /\ UNCHANGED <<portfolio, now, steps, feed, market_maker, threads>>

NextShutdown ==
    \/ RacingBookEvent
    \/ RacingTradeReceive
    \/ RacingCheckActive
    \/ RacingTestQuote
    \/ RacingLoadQuote
    \/ RacingSimulateFill
    \/ StopSetInactive
    \/ StopClearBid
    \/ StopClearAsk
    \/ CloseSocket
    \/ ExportAtShutdown

SpecShutdown == InitShutdown /\ [][NextShutdown]_vars

-----------------------------------------------------------------------------
(* SpecSpreads: one SpreadAnalyzer, built with a window of 1 to MaxWindow, *)
(* under any sequence of at most MaxSpreadCalls calls of update_spreads    *)
(* while the clock runs.  feed.spread_analyzer is the analyzer; last.calls *)
(* keeps the books of the calls made, oldest first.                        *)

MaxWindow == 2

MaxSpreadCalls == 4

MaxSpreadTicks == 2

\* A book two levels deep on each side, a book of one deep level, and an empty book.
SpreadBooks ==
    { [bids |-> <<OrderBookLevel(I(99), I(1)), OrderBookLevel(I(98), I(10))>>,
       asks |-> <<OrderBookLevel(I(101), I(1)), OrderBookLevel(I(103), I(10))>>],
      [bids |-> <<OrderBookLevel(I(100), I(20))>>, asks |-> <<OrderBookLevel(I(102), I(20))>>],
      [bids |-> <<>>, asks |-> <<>>] }

InitSpreads ==
    /\ portfolio = PortfolioManager(InitialUsd, I(1))
    /\ now = StartTime
    /\ steps = 0
    /\ last = [op |-> "init", calls |-> <<>>]
    /\ replay = NoReplay
    /\ \E window_size \in 1..MaxWindow :
          feed = [NoFeed EXCEPT !.spread_analyzer = NewSpreadAnalyzer(window_size)]
    /\ market_maker = IdleMaker
    /\ pc = "idle"
    /\ threads = NoThreads

CallUpdateSpreads ==
    /\ steps < MaxSpreadCalls
    /\ \E book \in SpreadBooks :
         /\ feed' = [feed EXCEPT !.spread_analyzer = UpdateAllSpreads(@, book.bids, book.asks, now)]
         /\ last' = [op |-> "update_spreads", calls |-> Append(last.calls, book)]
    /\ steps' = steps + 1
    /\ UNCHANGED <<portfolio, now, replay, market_maker, pc, threads>>

SpreadTick ==
    /\ now < StartTime + MaxSpreadTicks
    /\ now' = now + 1
    /\ UNCHANGED <<portfolio, steps, last, replay, feed, market_maker, pc, threads>>

NextSpreads == CallUpdateSpreads \/ SpreadTick

SpecSpreads == InitSpreads /\ [][NextSpreads]_vars

-----------------------------------------------------------------------------
(* SpecGate: the dashboard of SpecLive with a notional limit of 100 USD,   *)
(* which one order of 1 BTC at a fair price of 110 exceeds, on the same    *)
(* feed of book and trade events.                                          *)

GateConfigs == { MarketMakingConfig(I(1), I(100)) }

InitGate ==
    /\ \E cap \in LiveCaps : portfolio = PortfolioManager(InitialUsd, cap)
    /\ \E config \in GateConfigs : market_maker = StartMaker(SimpleMarketMaker(config))
    /\ feed = NoFeed
    /\ pc = "running"
    /\ now = StartTime
    /\ steps = 0
    /\ last = [op |-> "init"]
    /\ replay = NoReplay
    /\ threads = NoThreads

NextGate == BookEvent \/ TradeEvent \/ Tick

SpecGate == InitGate /\ [][NextGate]_vars

-----------------------------------------------------------------------------
(* Claims on the ledger, checked under SpecLedger.                         *)

Clip(x, lo, hi) == Max2(lo, Min2(x, hi))

\* The fill the last call applied to the ledger, or None.
LastFill ==
    IF last.op = "process_fill" THEN last.fill
    ELSE IF last.op = "simulate_fill" THEN last.ret
    ELSE None

(* C1: from q = 0, after any sequence of marks, trades routed through      *)
(* simulate_fill_from_trade and direct process_fill_market_making calls,   *)
(* -max_inventory <= q <= +max_inventory.                                  *)
C1_InventoryWithinCap ==
    /\ Le(Neg(portfolio.max_inventory), portfolio.state.q)
    /\ Le(portfolio.state.q, portfolio.max_inventory)

\* A direct fill larger than the room left was cut at the cap.
C1_Witness ==
    /\ last.op = "process_fill"
    /\ last.fill.side = "buy"
    /\ Gt(Plus(last.pre.state.q, last.fill.size), portfolio.max_inventory)
    /\ portfolio.state.q = portfolio.max_inventory
    /\ Lt(last.pre.state.q, portfolio.max_inventory)

(* C2: right after a mark at fair, nav = q*fair, pnl = cash + q*fair,      *)
(* realized_pnl = cash, unrealized_pnl = nav, and q, cash and              *)
(* avg_entry_price are those before the mark.                              *)
C2_MarkIdentities ==
    last.op = "mark" =>
        LET s == portfolio.state
            p == last.pre.state
        IN  /\ s.nav = Times(s.q, last.fair)
            /\ s.pnl = Plus(s.cash, Times(s.q, last.fair))
            /\ s.realized_pnl = s.cash
            /\ s.unrealized_pnl = s.nav
            /\ s.q = p.q
            /\ s.cash = p.cash
            /\ s.avg_entry_price = p.avg_entry_price

\* A mark of a non-flat position whose previous mark was at another price.
C2_Witness ==
    /\ last.op = "mark"
    /\ portfolio.state.q # Zero
    /\ portfolio.state.cash # Zero
    /\ last.pre.state.nav # portfolio.state.nav
    /\ last.pre.state.nav # Zero

(* C3: simulate_fill_from_trade returns a buy fill exactly when the trade  *)
(* is a sell at or below our bid and s = min(bid size, trade size,         *)
(* max_inventory - q) > 0, of size s; a sell fill exactly when the trade   *)
(* is a buy at or above our ask and s = min(ask size, trade size,          *)
(* q - min_inventory) > 0, of size s; never both; otherwise it returns     *)
(* None and the manager is unchanged.                                      *)
C3_FillRule ==
    last.op = "simulate_fill" =>
        LET pre == last.pre
            t   == last.trade
            qa  == last.quotes
            sb  == Min2(Min2(qa.bid_size, t.size), Minus(pre.max_inventory, pre.state.q))
            sa  == Min2(Min2(qa.ask_size, t.size), Minus(pre.state.q, pre.min_inventory))
            buyCase  == /\ qa.bid_price # None
                        /\ t.side = "sell"
                        /\ Le(t.price, qa.bid_price)
                        /\ Gt(sb, Zero)
            sellCase == /\ qa.ask_price # None
                        /\ t.side = "buy"
                        /\ Ge(t.price, qa.ask_price)
                        /\ Gt(sa, Zero)
            ret == last.ret
        IN  /\ buyCase <=> (ret # None /\ ret.side = "buy")
            /\ buyCase => ret.size = sb /\ ret.price = qa.bid_price
            /\ sellCase <=> (ret # None /\ ret.side = "sell")
            /\ sellCase => ret.size = sa /\ ret.price = qa.ask_price
            /\ portfolio.state.total_trades <= pre.state.total_trades + 1
            /\ ret = None => portfolio = pre

\* A sell at our bid filled for less than both the quote and the trade: the cap cut it.
C3_Witness ==
    /\ last.op = "simulate_fill"
    /\ last.ret # None
    /\ last.ret.side = "buy"
    /\ Lt(last.ret.size, last.trade.size)

(* C4: process_fill_market_making sets q to clip(q_before +/- size,        *)
(* [-max_inventory, +max_inventory]), executed = |q_after - q_before|,     *)
(* moves cash by -executed*price on a buy and +executed*price on a sell,   *)
(* and changes nothing when executed <= 0.  Scenario D: from q = 0,        *)
(* cash = 0, a buy of 1 at 100 gives q = 1, cash = -100, avg = 100, and a  *)
(* mark at 110 then gives nav = 110, pnl = 10.                             *)
C4_ProcessFill ==
    /\ last.op = "process_fill" =>
        LET pre  == last.pre
            f    == last.fill
            want == IF f.side = "buy" THEN Plus(pre.state.q, f.size) ELSE Minus(pre.state.q, f.size)
            q_after  == Clip(want, Neg(pre.max_inventory), pre.max_inventory)
            executed == AbsQ(Minus(q_after, pre.state.q))
            amount   == Times(executed, f.price)
        IN  /\ portfolio.state.q = q_after
            /\ portfolio.state.cash = IF f.side = "buy" THEN Minus(pre.state.cash, amount) ELSE Plus(pre.state.cash, amount)
            /\ Le(executed, Zero) => portfolio = pre
            /\ (pre.state.q = Zero /\ pre.state.cash = Zero /\ f.side = "buy" /\ f.size = I(1) /\ f.price = I(100))
                  => /\ portfolio.state.q = I(1)
                     /\ portfolio.state.cash = I(-100)
                     /\ portfolio.state.avg_entry_price = I(100)
    /\ (last.op = "mark" /\ last.fair = I(110) /\ portfolio.state.q = I(1) /\ portfolio.state.cash = I(-100))
          => portfolio.state.nav = I(110) /\ portfolio.state.pnl = I(10)

\* Scenario D has run: the buy of 1 at 100 from flat, then the mark at 110.
C4_Witness ==
    /\ last.op = "mark"
    /\ last.fair = I(110)
    /\ portfolio.state.q = I(1)
    /\ portfolio.state.cash = I(-100)
    /\ portfolio.state.avg_entry_price = I(100)
    /\ portfolio.state.total_trades = 1
    /\ portfolio.state.pnl = I(10)

(* C5: after every executed fill, avg_entry_price follows the four cases:  *)
(* reinforcing (buy with q_before >= 0, sell with q_before <= 0) gives the *)
(* weighted average; reducing without reaching zero leaves it; reaching    *)
(* zero sets 0; crossing zero sets the fill price.  Scenario E: from       *)
(* q = 1, cash = -100, max_inventory = 1, a sell of 2 at 120 gives         *)
(* q = -1, cash = 140, avg = 120.                                          *)
C5_AvgEntryRule ==
    (LastFill # None /\ portfolio.state.q # last.pre.state.q) =>
        LET pre == last.pre.state
            f   == LastFill
            qb  == pre.q
            qa  == portfolio.state.q
            executed == AbsQ(Minus(qa, qb))
            avg == pre.avg_entry_price
            reinforcing == \/ f.side = "buy" /\ Ge(qb, Zero)
                           \/ f.side = "sell" /\ Le(qb, Zero)
            crossed == \/ Gt(qb, Zero) /\ Lt(qa, Zero)
                       \/ Lt(qb, Zero) /\ Gt(qa, Zero)
            expected == IF reinforcing
                        THEN Over(Plus(Times(avg, AbsQ(qb)), Times(f.price, executed)), Plus(AbsQ(qb), executed))
                        ELSE IF qa = Zero THEN Zero
                        ELSE IF crossed THEN f.price
                        ELSE avg
        IN  /\ portfolio.state.avg_entry_price = expected
            /\ (qb = I(1) /\ pre.cash = I(-100) /\ last.pre.max_inventory = I(1) /\ f.side = "sell" /\ f.size = I(2) /\ f.price = I(120))
                  => /\ qa = I(-1)
                     /\ portfolio.state.cash = I(140)
                     /\ portfolio.state.avg_entry_price = I(120)

\* Scenario E has run: long 1 bought at 100, then the sell of 2 at 120 under a cap of 1.
C5_Witness ==
    /\ last.op = "process_fill"
    /\ last.fill = Fill(now, "sell", I(120), I(2))
    /\ last.pre.state.q = I(1)
    /\ last.pre.state.cash = I(-100)
    /\ last.pre.state.avg_entry_price = I(100)
    /\ portfolio.max_inventory = I(1)
    /\ portfolio.state.q = I(-1)
    /\ portfolio.state.cash = I(140)
    /\ portfolio.state.avg_entry_price = I(120)


(* C21: whenever simulate_fill_from_trade returns a Fill, the ledger has   *)
(* applied it within the call and in full: q has moved by +fill.size on a  *)
(* buy and -fill.size on a sell, cash by -fill.size * bid price on a buy   *)
(* and +fill.size * ask price on a sell, and the returned fill is the      *)
(* newest entry of fills_history and of recent_fills.                      *)
C21_ReturnedFillApplied ==
    (last.op = "simulate_fill" /\ last.ret # None) =>
        LET pre == last.pre
            f   == last.ret
            resting == IF f.side = "buy" THEN last.quotes.bid_price ELSE last.quotes.ask_price
        IN  /\ portfolio.state.q =
                  IF f.side = "buy" THEN Plus(pre.state.q, f.size) ELSE Minus(pre.state.q, f.size)
            /\ portfolio.state.cash =
                  IF f.side = "buy" THEN Minus(pre.state.cash, Times(f.size, resting))
                  ELSE Plus(pre.state.cash, Times(f.size, resting))
            /\ portfolio.fills_history # <<>>
            /\ portfolio.fills_history[Len(portfolio.fills_history)] = f
            /\ portfolio.recent_fills # <<>>
            /\ portfolio.recent_fills[Len(portfolio.recent_fills)] = f
            /\ portfolio.state.total_trades = pre.state.total_trades + 1

(* A buy at our ask was filled for less than the quote and the trade       *)
(* offered, because the room down to the inventory floor was smaller; the  *)
(* ledger is at the floor.                                                 *)
C21_Witness ==
    /\ last.op = "simulate_fill"
    /\ last.ret # None
    /\ last.ret.side = "sell"
    /\ Lt(last.ret.size, last.trade.size)
    /\ Lt(last.ret.size, last.quotes.ask_size)
    /\ portfolio.state.q = portfolio.min_inventory
    /\ portfolio.state.q = Minus(last.pre.state.q, last.ret.size)

\* The fills a caller can hand the ledger one after another: every sequence of at most MaxOps of them.
FillSequences ==
    UNION { [1..n -> { Fill(StartTime, side, price, size) :
                         side \in Sides, price \in FillPrices, size \in FillSizes \ {Zero} }] :
            n \in 1..MaxOps }

\* The live ledger after the fills of a sequence, oldest first.
RECURSIVE LedgerAfter(_, _)
LedgerAfter(pf, fills) ==
    IF Len(fills) = 0 THEN pf
    ELSE LedgerAfter(ProcessFillMarketMaking(pf, fills[1]), [i \in 1..(Len(fills) - 1) |-> fills[i + 1]])

\* The rows of a fill sequence as export_trades_csv writes them, none left out.
RowsOf(fills) ==
    [ i \in 1..Len(fills) |->
        Row(IsoTime(fills[i].timestamp), fills[i].side, Fmt8(fills[i].price), Fmt8(fills[i].size), None) ]

\* The avg_entry_price of the last row the reconstructor puts out for these rows; 0 if there is none.
ReplayedAvg(trades_rows, max_inventory) ==
    LET out == ComputePnlFromTrades(trades_rows, None, max_inventory)
    IN  IF out = <<>> THEN Zero ELSE out[Len(out)].avg_entry_price

C28_CountersReconcile ==
    LET s == portfolio.state
    IN  /\ s.q = Minus(s.total_btc_bought, s.total_btc_sold)
        /\ s.cash = Minus(s.total_usd_received, s.total_usd_spent)
        /\ s.btc_balance = s.q
        /\ s.total_trades <= steps
        /\ last.op = "init" => s.total_trades = 0
        /\ last.op # "init" =>
              s.total_trades = last.pre.state.total_trades
                                 + (IF s.q # last.pre.state.q THEN 1 ELSE 0)

(* Three fills handed in: a buy, a sell that crossed to the short cap, and *)
(* a sell that the cap absorbed whole.  Two of them executed.              *)
C28_Witness ==
    /\ steps = 3
    /\ last.op = "process_fill"
    /\ last.fill.side = "sell"
    /\ Gt(last.fill.size, Zero)
    /\ portfolio.state.q = last.pre.state.q
    /\ portfolio.state.total_trades = 2
    /\ Gt(portfolio.state.total_btc_bought, Zero)
    /\ Gt(portfolio.state.total_btc_sold, portfolio.state.total_btc_bought)
    /\ Lt(portfolio.state.q, Zero)
    /\ portfolio.state.cash # Zero

-----------------------------------------------------------------------------
(* Claims on the live pipeline and its export, checked under SpecLive.     *)

\* The position in the last row the replay put out; 0, where it starts, if there is none.
ReplayedQ == IF replay.out = <<>> THEN Zero ELSE replay.out[Len(replay.out)].position

C16_NoQuotesOnBadBook ==
    (last.op = "book" /\ CalculateFairPrice(last.bids, last.asks) = None) =>
        /\ GenerateQuotes(market_maker.config, last.bids, last.asks,
                          portfolio.state.q, portfolio.state.pnl, now) = [bid |-> None, ask |-> None]
        /\ last.due => (market_maker.current_bid = None /\ market_maker.current_ask = None)

(* C27: between any two handlers, where a reader can take the data lock,   *)
(* get_portfolio_summary is consistent: total_pnl = realized_pnl +         *)
(* unrealized_pnl, and nav = position_q times the last mark price.  While  *)
(* the view holds a book with both sides, the last mark price is its mid:  *)
(* the book update that stored it marked the ledger there.                 *)
C27_SummaryConsistent ==
    LET summary == GetPortfolioSummary(portfolio)
    IN  /\ summary.total_pnl = Plus(summary.realized_pnl, summary.unrealized_pnl)
        /\ (feed.bids # <<>> /\ feed.asks # <<>>) =>
               summary.nav = Times(summary.position_q,
                                   Over(Plus(feed.asks[1].price, feed.bids[1].price), I(2)))

-----------------------------------------------------------------------------
(* Claims on the two threads and the data lock, checked under SpecThreads. *)

\* The feed thread is inside the body of a handler.
FeedInHandler == threads.feed_pc \notin {"idle", "acquire"}

\* The render thread is inside the with block of a panel.
RenderInPanel == threads.phase \in {"locked", "read"}

(* C6: both handlers run from their first statement to their last inside   *)
(* the data lock, so that while the feed thread and the render loop run    *)
(* side by side a handler and a panel are never inside the lock together,  *)
(* a handler leaves exactly what it leaves when run alone on the state it  *)
(* found, nothing changes the book, the quotes or the ledger between two   *)
(* handlers, and a panel only ever sees the state a handler left behind,   *)
(* never one in the middle of an update.                                   *)
C6_PipelineInsideLock ==
    /\ FeedInHandler => threads.lock = "feed"
    /\ ~(FeedInHandler /\ RenderInPanel)
    /\ ~FeedInHandler => Committed = threads.committed
    /\ threads.phase = "read" =>
          threads.view = PanelReads(Panels[threads.panel], threads.committed.feed,
                                    threads.committed.pf, threads.committed.mm)
    /\ threads.feed_pc = "release" =>
          LET c  == threads.committed
              ev == threads.event
          IN  IF ev.kind = "book"
              THEN LET r == OnOrderbookUpdate(c.feed, c.pf, c.mm, ev.bids, ev.asks, now)
                   IN  feed = r.feed /\ portfolio = r.pf /\ market_maker = r.mm
              ELSE LET r == OnTradeUpdate(c.feed, c.pf, c.mm, ev.trade, now)
                   IN  feed = r.feed /\ portfolio = r.pf /\ market_maker = c.mm

\* The book handler holds the lock with the bids stored and the asks not yet, while a panel waits for the lock.
C6_Witness ==
    /\ threads.feed_pc = "store_asks"
    /\ threads.lock = "feed"
    /\ feed.bids # threads.committed.feed.bids
    /\ feed.asks = threads.committed.feed.asks
    /\ threads.committed.mm.current_bid # None
    /\ Panels[threads.panel] = "orderbook"
    /\ threads.phase = "enter"

(* C7: every step of the render loop leaves the maker (active flag, held   *)
(* quotes, last update time) and the ledger (q, cash, average entry, nav,  *)
(* pnl, histories) as they were, and a panel reads the book, the trades,   *)
(* the ledger, the maker and the spreads only while the render thread      *)
(* holds the data lock.                                                    *)
C7_RenderReadsUnderLock ==
    /\ (last.actor = "main") =>
          /\ portfolio = last.pre.pf
          /\ market_maker = last.pre.mm
    /\ (last.actor = "main" /\ last.op = "read") => last.lock = "main"
    /\ RenderInPanel => threads.lock = "main"
    /\ threads.view # None => threads.lock = "main"

\* The portfolio panel has just read, under the lock, a ledger that holds a position against held quotes.
C7_Witness ==
    /\ last.actor = "main"
    /\ last.op = "read"
    /\ Panels[threads.panel] = "portfolio"
    /\ threads.lock = "main"
    /\ portfolio.state.q # Zero
    /\ market_maker.current_bid # None
    /\ threads.view.summary.position_q = portfolio.state.q
    /\ portfolio = last.pre.pf

-----------------------------------------------------------------------------
(* Claims on the offline reconstructor, checked under SpecReplay.          *)

\* The running values before output row i: those of row i - 1, or the initial zeros.
RowBefore(i) ==
    IF i = 1
    THEN [position |-> Zero, avg_entry_price |-> Zero, cash |-> Zero, realized_pnl |-> Zero]
    ELSE replay.out[i - 1]

\* The side, price and size of each row of a log.
KindsOf(rows) == [ i \in 1..Len(rows) |-> [side |-> rows[i].side, price |-> rows[i].price, size |-> rows[i].size] ]

ScenarioF ==
    << [side |-> "buy", price |-> I(100), size |-> I(1)],
       [side |-> "buy", price |-> I(110), size |-> I(1)],
       [side |-> "sell", price |-> I(130), size |-> I(2)] >>

(* C9: every row the reconstructor emits, for any trade log, cap and mark, *)
(* has total_pnl = realized_pnl + unrealized_pnl = cash + position * mark, *)
(* and realized_pnl = cash + position * avg_entry_price.                   *)
C9_RowIdentities ==
    \A i \in 1..Len(replay.out) :
        LET r == replay.out[i]
        IN  /\ r.total_pnl = Plus(r.realized_pnl, r.unrealized_pnl)
            /\ r.total_pnl = Plus(r.cash, Times(r.position, r.mark_price))
            /\ r.realized_pnl = Plus(r.cash, Times(r.position, r.avg_entry_price))

\* A capped replay with a mark column left a row that is short, has realized P&L and is marked off its own price.
C9_Witness ==
    /\ replay.done
    /\ replay.max_inventory # None
    /\ \E i \in 1..Len(replay.out) :
          /\ Lt(replay.out[i].position, Zero)
          /\ replay.out[i].realized_pnl # Zero
          /\ replay.out[i].mark_price # replay.out[i].price
          /\ replay.out[i].unrealized_pnl # Zero

(* C10: close-then-open average cost.  A fill opposite to the position     *)
(* closes min(|q|, size) of it, adding (price - avg)*closed for a long or  *)
(* (avg - price)*closed for a short to realized, and the average becomes 0 *)
(* if the position ends flat; only the remainder opens new exposure, at    *)
(* the weighted average; a fill in the position's own direction leaves     *)
(* realized unchanged.  Scenario F: buy 1 at 100, buy 1 at 110, sell 2 at  *)
(* 130 ends with realized 50, position 0, unrealized 0.                    *)
C10_CloseThenOpen ==
    /\ \A i \in 1..Len(replay.out) :
        LET prev == RowBefore(i)
            row  == replay.out[i]
            qp   == prev.position
            acp  == prev.avg_entry_price
            q    == row.position
            d    == Minus(q, qp)
            p    == row.price
            opposite == \/ Gt(qp, Zero) /\ Lt(d, Zero)
                        \/ Lt(qp, Zero) /\ Gt(d, Zero)
            closed == Min2(AbsQ(qp), AbsQ(d))
            remainder == Minus(AbsQ(d), closed)
            aligned == Len(replay.out) = Len(replay.trades_rows)
        IN  IF d = Zero
            THEN row.realized_pnl = prev.realized_pnl /\ row.avg_entry_price = acp
            ELSE IF opposite
            THEN /\ row.realized_pnl =
                        Plus(prev.realized_pnl,
                             IF Gt(qp, Zero) THEN Times(Minus(p, acp), closed) ELSE Times(Minus(acp, p), closed))
                 /\ row.avg_entry_price =
                        IF q = Zero THEN Zero
                        ELSE IF Gt(remainder, Zero) THEN Over(Times(remainder, p), remainder)
                        ELSE acp
                 /\ aligned => closed = Min2(AbsQ(qp), SortedByTime(replay.trades_rows)[i].size)
            ELSE /\ row.realized_pnl = prev.realized_pnl
                 /\ row.avg_entry_price =
                        Over(Plus(Times(AbsQ(qp), acp), Times(AbsQ(d), p)), Plus(AbsQ(qp), AbsQ(d)))
    /\ (replay.done /\ replay.max_inventory = None /\ KindsOf(SortedByTime(replay.trades_rows)) = ScenarioF)
          => LET end == replay.out[Len(replay.out)]
             IN  /\ Len(replay.out) = 3
                 /\ end.realized_pnl = I(50)
                 /\ end.position = Zero
                 /\ end.unrealized_pnl = Zero

\* Scenario F has been replayed from a log given in reverse time order.
C10_Witness ==
    /\ replay.done
    /\ replay.max_inventory = None
    /\ KindsOf(SortedByTime(replay.trades_rows)) = ScenarioF
    /\ KindsOf(replay.trades_rows) # ScenarioF
    /\ replay.out[3].realized_pnl = I(50)
    /\ replay.out[2].avg_entry_price = I(105)

-----------------------------------------------------------------------------
(* Claims on the quote engine, checked under SpecQuotes.                   *)

\* The last operation was update_quotes.
Updated == last.op = "update_quotes"

\* The last two operations were update_quotes, both with the same book.
TwiceSameBook ==
    /\ Updated
    /\ last.prev # None
    /\ last.prev.bids = last.bids
    /\ last.prev.asks = last.asks

(* C11: when update_quotes is called twice with an unchanged book and the  *)
(* second call falls inside the refresh interval that is running when the  *)
(* first call has returned (no more than quote_refresh_interval after the  *)
(* last_quote_time the first call left), the second call returns           *)
(* (None, None) and leaves current_bid, current_ask and last_quote_time as *)
(* the first call left them.                                               *)
C11_SecondCallThrottled ==
    (TwiceSameBook /\ last.t - last.pre.last_quote_time <= last.pre.config.quote_refresh_interval)
        => /\ last.ret = [bid |-> None, ask |-> None]
           /\ market_maker.current_bid = last.pre.current_bid
           /\ market_maker.current_ask = last.pre.current_ask
           /\ market_maker.last_quote_time = last.pre.last_quote_time

(* The first call installed quotes, the second comes exactly one interval  *)
(* later with the same book and a position that would move the ask.        *)
C11_Witness ==
    /\ TwiceSameBook
    /\ last.pre.last_quote_time = last.prev.t
    /\ last.t = last.prev.t + last.pre.config.quote_refresh_interval
    /\ last.pre.current_ask # None
    /\ LET new == GenerateQuotes(last.pre.config, last.bids, last.asks, last.position, last.total_pnl, last.t)
       IN  new.ask # None /\ new.ask.price # last.pre.current_ask.price
    /\ market_maker.current_ask = last.pre.current_ask

\* The last update_quotes call came more than one refresh interval after last_quote_time.
Due == Updated /\ last.t - last.pre.last_quote_time > last.pre.config.quote_refresh_interval

\* What generate_quotes gives for the arguments of the last update_quotes call.
Candidates ==
    GenerateQuotes(last.pre.config, last.bids, last.asks, last.position, last.total_pnl, last.t)

\* Exactly one of the two quotes is None, or the prices or the sizes are more than 0.01 apart.
Differs(held, candidate) ==
    \/ (held = None) # (candidate = None)
    \/ /\ held # None
       /\ candidate # None
       /\ \/ Gt(AbsQ(Minus(candidate.price, held.price)), Q(1, 100))
          \/ Gt(AbsQ(Minus(candidate.size, held.size)), Q(1, 100))

(* C12: _quote_changed answers yes exactly when one of the two quotes is   *)
(* None and the other is not, or the prices are more than 0.01 apart, or   *)
(* the sizes are more than 0.01 apart.  A due update_quotes compares the   *)
(* candidate bid with the held bid and the candidate ask with the held     *)
(* ask: if either changed, both held quotes are replaced by the candidates,*)
(* last_quote_time is the time of the call and the candidate pair is       *)
(* returned; if neither changed, the held quotes and last_quote_time stay  *)
(* and (None, None) is returned.                                           *)
C12_ReplaceBothOrNone ==
    /\ last.op = "quote_changed" => (last.ret <=> Differs(last.old_quote, last.new_quote))
    /\ Due =>
         IF Differs(last.pre.current_bid, Candidates.bid) \/ Differs(last.pre.current_ask, Candidates.ask)
         THEN /\ market_maker.current_bid = Candidates.bid
              /\ market_maker.current_ask = Candidates.ask
              /\ market_maker.last_quote_time = last.t
              /\ last.ret = Candidates
         ELSE /\ market_maker.current_bid = last.pre.current_bid
              /\ market_maker.current_ask = last.pre.current_ask
              /\ market_maker.last_quote_time = last.pre.last_quote_time
              /\ last.ret = [bid |-> None, ask |-> None]

(* A due refresh found the bid 0.02 higher and the ask where it was: the   *)
(* ask was replaced too, by a quote of the same price made at this call.   *)
C12_Witness ==
    /\ Due
    /\ last.pre.current_bid # None
    /\ last.pre.current_ask # None
    /\ Differs(last.pre.current_bid, Candidates.bid)
    /\ ~Differs(last.pre.current_ask, Candidates.ask)
    /\ market_maker.current_ask.timestamp = last.t
    /\ last.pre.current_ask.timestamp < last.t
    /\ market_maker.current_ask.price = last.pre.current_ask.price

\* The mid of the book of the last update_quotes call, None for an empty or crossed book.
FairPrice == CalculateFairPrice(last.bids, last.asks)

\* The metrics of the last update_quotes call are out of bounds at the book's fair price.
Breach ==
    LET notional == Times(IF Lt(last.position, Zero) THEN Neg(last.position) ELSE last.position, FairPrice)
    IN  \/ Lt(last.pre.config.max_notional_exposure, notional)
        \/ Lt(Plus(last.total_pnl, last.pre.config.max_loss_allowed), Zero)

(* C13: after a due update_quotes on a valid book the engine holds no bid  *)
(* and no ask exactly when |position| * fair price > max_notional_exposure *)
(* or total P&L < -max_loss_allowed, and holds both otherwise (metrics     *)
(* exactly on a limit do not suspend).  The gate is not sticky: when the   *)
(* call before was a breach that cleared the quotes, a due call with       *)
(* metrics in bounds and a valid book installs and returns a bid and an    *)
(* ask.                                                                    *)
C13_RiskGate ==
    /\ (Due /\ FairPrice # None) =>
          /\ Breach <=> (market_maker.current_bid = None /\ market_maker.current_ask = None)
          /\ ~Breach => (market_maker.current_bid # None /\ market_maker.current_ask # None)
    /\ (Due /\ FairPrice # None /\ last.prev # None /\ last.prev.breach /\ ~Breach) =>
          /\ last.ret.bid # None
          /\ last.ret.ask # None
          /\ market_maker.current_bid = last.ret.bid
          /\ market_maker.current_ask = last.ret.ask

(* Quotes were installed, a breach cleared them, and the next due call,    *)
(* with the notional exactly on its limit, installed a bid and an ask.     *)
C13_Witness ==
    /\ Due
    /\ FairPrice # None
    /\ last.prev # None
    /\ last.prev.breach
    /\ last.pre.current_bid = None
    /\ Times(AbsQ(last.position), FairPrice) = last.pre.config.max_notional_exposure
    /\ market_maker.current_bid # None
    /\ market_maker.current_ask # None

(* C17: stop() leaves the engine inactive with no bid and no ask, and from *)
(* stop() until the next start() the engine holds no quote, whatever       *)
(* update_quotes calls the feed's events make in between.                  *)
C17_NoQuotesWhileInactive ==
    /\ last.op = "stop" => ~market_maker.is_active
    /\ (last.stopped /\ ~market_maker.is_active) =>
          (market_maker.current_bid = None /\ market_maker.current_ask = None)

-----------------------------------------------------------------------------
(* Claims on single calls, checked under SpecCalls.                        *)

\* The last call was generate_quotes and it returned a bid and an ask.
Quoted ==
    /\ last.op = "generate_quotes"
    /\ last.ret # ZeroDivisionError
    /\ last.ret.bid # None
    /\ last.ret.ask # None

\* The signed exposure ratio of that call: position * fair price / max_notional_exposure.
SignedExpo == Over(Times(last.position, last.fair_price), last.config.max_notional_exposure)

\* The skew tier for |expo|: 0 inside the deadband, then 1, 2, 3.
Tier ==
    LET a == IF Lt(SignedExpo, Zero) THEN Neg(SignedExpo) ELSE SignedExpo
    IN  IF Le(a, Q(20, 100)) THEN 0 ELSE IF Le(a, Q(40, 100)) THEN 1 ELSE IF Le(a, Q(60, 100)) THEN 2 ELSE 3

\* offsetUsd = fairPrice * tier * stepBps / 10000
OffsetUsd == Over(Times(last.fair_price, Times(I(Tier), last.config.asym_bps_step)), I(10000))

BestBid == last.bids[1].price

BestAsk == last.asks[1].price

(* C14: when generate_quotes quotes for a short position whose |expo| is   *)
(* above the deadband, the bid is min(bestAsk - tick, bestBid + offsetUsd) *)
(* and the ask is bestAsk.                                                 *)
C14_ShortTightensBid ==
    (Quoted /\ Lt(last.position, Zero) /\ Tier > 0) =>
        /\ last.ret.bid.price = Min2(Minus(BestAsk, last.config.tick_size), Plus(BestBid, OffsetUsd))
        /\ last.ret.ask.price = BestAsk

(* C15: when generate_quotes quotes for a long position, both quotes are   *)
(* at top of book if |expo| <= 0.20; otherwise the tier is 1 for           *)
(* |expo| <= 0.40, 2 for |expo| <= 0.60 and 3 above, the ask is            *)
(* max(bestBid + tick, bestAsk - fairPrice * tier * stepBps / 10000) and   *)
(* the bid is bestBid.                                                     *)
C15_LongTightensAsk ==
    (Quoted /\ Gt(last.position, Zero)) =>
        /\ last.ret.bid.price = BestBid
        /\ last.ret.ask.price =
              IF Tier = 0 THEN BestAsk
              ELSE Max2(Plus(BestBid, last.config.tick_size), Minus(BestAsk, OffsetUsd))

(* A long position with |expo| exactly 0.60 was quoted in tier 2: the ask  *)
(* came 0.04 USD under the best ask of 110.                                *)
C15_Witness ==
    /\ Quoted
    /\ Gt(last.position, Zero)
    /\ SignedExpo = Q(3, 5)
    /\ last.ret.ask.price = Q(10996, 100)
    /\ last.ret.bid.price = I(90)

(* C29: whenever generate_quotes returns both quotes for an uncrossed      *)
(* book, whatever the position and the book's width (less than one tick    *)
(* included), best_bid <= bid.price < ask.price <= best_ask.               *)
C29_QuotesInsideBook ==
    (Quoted /\ Lt(BestBid, BestAsk) /\ Gt(last.config.tick_size, Zero)) =>
        /\ Le(BestBid, last.ret.bid.price)
        /\ Lt(last.ret.bid.price, last.ret.ask.price)
        /\ Le(last.ret.ask.price, BestAsk)

\* The last call was generate_quotes on a book with a fair price and metrics inside both limits.
GateProceeds ==
    /\ last.op = "generate_quotes"
    /\ last.fair_price # None
    /\ last.config.max_notional_exposure # Zero
    /\ Le(Times(AbsQ(last.position), last.fair_price), last.config.max_notional_exposure)
    /\ Ge(last.total_pnl, Neg(last.config.max_loss_allowed))

\* clamp(base_order_size, 0.01, max_order_size)
ClampedSize ==
    IF Lt(last.config.base_order_size, Q(1, 100)) THEN Q(1, 100)
    ELSE IF Gt(last.config.base_order_size, last.config.max_order_size) THEN last.config.max_order_size
    ELSE last.config.base_order_size

(* C23: whenever the fair price is available and the risk gate proceeds,   *)
(* generate_quotes returns a bid and an ask, each of size                  *)
(* clamp(base_order_size, 0.01, max_order_size), whatever base_order_size  *)
(* is configured and whatever the position.                                *)
C23_BothQuotesClampedSize ==
    GateProceeds =>
        /\ last.ret.bid # None
        /\ last.ret.ask # None
        /\ last.ret.bid.size = ClampedSize
        /\ last.ret.ask.size = ClampedSize

\* The size filled by the first k levels of a side when target is asked for.
FilledBy(side, target, k) ==
    LET cum[j \in 0..Len(side)] == IF j = 0 THEN Zero ELSE Plus(cum[j - 1], side[j].size)
    IN  Min2(target, cum[k])

(* The cost of target on a non-empty side: each level pays its price for   *)
(* what it adds to the filled size, and what no level fills pays the last  *)
(* level's price.                                                          *)
SideCost(side, target) ==
    LET paid[k \in 0..Len(side)] ==
            IF k = 0 THEN Zero
            ELSE Plus(paid[k - 1],
                      Times(Minus(FilledBy(side, target, k), FilledBy(side, target, k - 1)), side[k].price))
    IN  Plus(paid[Len(side)],
             Times(Minus(target, FilledBy(side, target, Len(side))), side[Len(side)].price))

\* The last call was calculate_spread_for_size.
SpreadAsked == last.op = "calculate_spread_for_size"

(* C19: calculate_spread_for_size returns 0.0 when the size is <= 0 or a   *)
(* side is empty; otherwise it returns (askCost - bidCost) / size, where a *)
(* side's cost takes min(remaining, level.size) at each level's price from *)
(* the best level on and charges what is left after the last level at the  *)
(* last level's price.  Bid 100@1, ask 101@1, size 1 gives 1.0; bids       *)
(* 100@0.5 then 99@10, size 1 give an average bid of 99.5.                 *)
C19_SpreadForSize ==
    /\ SpreadAsked =>
          IF Le(last.target_size, Zero) \/ last.bids = <<>> \/ last.asks = <<>>
          THEN last.ret = Zero
          ELSE last.ret = Over(Minus(SideCost(last.asks, last.target_size),
                                     SideCost(last.bids, last.target_size)), last.target_size)
    /\ ( /\ SpreadAsked
         /\ last.bids = <<OrderBookLevel(I(100), I(1))>>
         /\ last.asks = <<OrderBookLevel(I(101), I(1))>>
         /\ last.target_size = I(1) ) => last.ret = I(1)
    /\ ( /\ SpreadAsked
         /\ last.bids = <<OrderBookLevel(I(100), Q(1, 2)), OrderBookLevel(I(99), I(10))>>
         /\ last.asks # <<>>
         /\ last.target_size = I(1) ) =>
            last.ret = Minus(SideCost(last.asks, I(1)), Q(199, 2))

(* Size 5 was asked of bids 100@0.5 and 99@1 and an ask 101@1: 3.5 BTC of  *)
(* the bid side and 4 BTC of the ask side were charged at the last level,  *)
(* the spread is (505 - 495.5) / 5 = 1.9.                                  *)
C19_Witness ==
    /\ SpreadAsked
    /\ last.bids = <<OrderBookLevel(I(100), Q(1, 2)), OrderBookLevel(I(99), I(1))>>
    /\ last.asks = <<OrderBookLevel(I(101), I(1))>>
    /\ last.target_size = I(5)
    /\ last.ret = Q(19, 10)

\* No level of the last call's book holds any volume.
NoVolume ==
    /\ \A k \in 1..Len(last.bids) : last.bids[k].size = Zero
    /\ \A k \in 1..Len(last.asks) : last.asks[k].size = Zero

(* C20: no division of the core raises on a zero divisor, the result is    *)
(* 0.0 instead: the inventory utilization of get_portfolio_summary with an *)
(* inventory cap of zero, the exposure ratio of generate_quotes with       *)
(* max_notional_exposure zero, the spread for a target size of zero, the   *)
(* imbalance of a book whose volumes sum to zero.                          *)
C20_DivisionsGuarded ==
    /\ (last.op = "get_portfolio_summary" /\ last.pf.max_inventory = Zero) =>
          (last.ret # ZeroDivisionError /\ last.ret.inventory_utilization = Zero)
    /\ (last.op = "generate_quotes" /\ last.config.max_notional_exposure = Zero) =>
          last.ret # ZeroDivisionError
    /\ (last.op = "calculate_spread_for_size" /\ last.target_size = Zero) => last.ret = Zero
    /\ (last.op \in {"calc_imbalance_levels", "calc_imbalance_volume"} /\ NoVolume) => last.ret = Zero

-----------------------------------------------------------------------------
(* Claims on the rows the reconstructor emits, checked under SpecReplay.   *)

\* The position a row asks for, held within the cap the replay was given.
CappedPosition(position, row) ==
    LET desired == IF row.side = "buy" THEN Plus(position, row.size) ELSE Minus(position, row.size)
    IN  IF replay.max_inventory = None THEN desired
        ELSE Max2(Neg(replay.max_inventory), Min2(desired, replay.max_inventory))

\* The rows of the log in time order, and those of them whose price and size are finite numbers.
LogRows == SortedByTime(replay.trades_rows)

FiniteRows == SelectSeq(LogRows, LAMBDA r : IsFinite(r.price) /\ IsFinite(r.size))

\* Output row i reports a fill of rows[i] that moved nothing: size 0 and the running values of the row before.
ReportsAbsorbed(rows, i) ==
    LET row == replay.out[i]
    IN  /\ row.price = rows[i].price
        /\ row.size = Zero
        /\ row.position = RowBefore(i).position
        /\ row.cash = RowBefore(i).cash
        /\ row.avg_entry_price = RowBefore(i).avg_entry_price
        /\ row.realized_pnl = RowBefore(i).realized_pnl

(* C18 as stated: the reconstructor emits exactly one output row per input *)
(* row, always, and the row of a fill the cap absorbs entirely reports     *)
(* size 0, the unchanged position, cash, average entry and realized P&L,   *)
(* and a mark equal to the fill's own price.                               *)
C18_OneRowPerInputRow ==
    replay.done =>
        /\ Len(replay.out) = Len(replay.trades_rows)
        /\ \A i \in 1..Len(replay.out) :
              CappedPosition(RowBefore(i).position, LogRows[i]) = RowBefore(i).position
                 => (ReportsAbsorbed(LogRows, i) /\ replay.out[i].mark_price = LogRows[i].price)

(* C18, amended: the reconstructor emits exactly one output row per input  *)
(* row whose price and size are finite numbers (other rows are skipped),   *)
(* and the row of a fill the cap absorbs entirely reports size 0, the      *)
(* unchanged position, cash, average entry and realized P&L, and as mark   *)
(* the row's mark column when one is named and filled, else the fill's own *)
(* price.                                                                  *)
C18_OneRowPerFiniteRow ==
    replay.done =>
        /\ Len(replay.out) = Len(FiniteRows)
        /\ \A i \in 1..Len(replay.out) :
              CappedPosition(RowBefore(i).position, FiniteRows[i]) = RowBefore(i).position
                 => /\ ReportsAbsorbed(FiniteRows, i)
                    /\ replay.out[i].mark_price =
                          IF replay.mark_col # None /\ FiniteRows[i].mark # None
                          THEN FiniteRows[i].mark ELSE FiniteRows[i].price

(* A log of three rows, one of them unparseable, left two output rows; the *)
(* second is a buy the cap absorbed, marked from its mark column.          *)
C18_Witness ==
    /\ replay.done
    /\ Len(replay.trades_rows) = 3
    /\ Len(replay.out) = 2
    /\ replay.max_inventory # None
    /\ replay.out[1].position = replay.max_inventory
    /\ replay.out[2].side = "buy"
    /\ replay.out[2].size = Zero
    /\ replay.out[2].position = replay.max_inventory
    /\ replay.out[2].mark_price = ReplayMark
    /\ replay.out[2].price # ReplayMark

(* C25: in every output row of the reconstructor, size is the absolute     *)
(* change of position from the row before, cash has moved by minus the     *)
(* signed position change times the row's price, and, when a cap is        *)
(* given, the position lies within it; for buys and for sells, closing and *)
(* crossing fills included.                                                *)
C25_RowSizeIsPositionChange ==
    replay.done =>
        \A i \in 1..Len(replay.out) :
            LET row   == replay.out[i]
                moved == Minus(row.position, RowBefore(i).position)
            IN  /\ row.size = AbsQ(moved)
                /\ row.cash = Minus(RowBefore(i).cash, Times(moved, row.price))
                /\ replay.max_inventory # None => Le(AbsQ(row.position), replay.max_inventory)

-----------------------------------------------------------------------------
(* Claims on the spread buffers, checked under SpecSpreads.                *)

\* The last n entries of a sequence, in their order.
LastN(seq, n) == SubSeq(seq, Len(seq) - n + 1, Len(seq))

\* The smaller of two naturals.
MinNat(a, b) == IF a <= b THEN a ELSE b

(* C26: after n calls of update_spreads on an analyzer of window W, for    *)
(* each configured size the full log holds the spreads of all n calls in   *)
(* arrival order, the rolling buffer holds exactly the last min(n, W) of   *)
(* them in that order, so it is a suffix of the full log, and the two      *)
(* timestamp buffers have the lengths of the value buffers they go with.   *)
C26_RollingIsSuffixOfFull ==
    LET sa == feed.spread_analyzer
        n  == Len(last.calls)
        W  == sa.window_size
    IN  /\ \A size \in SpreadSizes :
              /\ sa.spread_history_full[size]
                    = [ i \in 1..n |-> CalculateSpreadForSize(last.calls[i].bids, last.calls[i].asks, size) ]
              /\ Len(sa.spread_history[size]) = MinNat(n, W)
              /\ sa.spread_history[size] = LastN(sa.spread_history_full[size], MinNat(n, W))
              /\ Len(sa.timestamps) = Len(sa.spread_history[size])
              /\ Len(sa.timestamps_full) = Len(sa.spread_history_full[size])
        /\ sa.timestamps = LastN(sa.timestamps_full, MinNat(n, W))

(* Four calls on a window of 2, the books differing: the rolling buffer of *)
(* size 10.0 has evicted two spreads that the full log still holds.        *)
C26_Witness ==
    LET sa == feed.spread_analyzer
    IN  /\ last.op = "update_spreads"
        /\ Len(last.calls) = 4
        /\ sa.window_size = 2
        /\ Len(sa.spread_history[I(10)]) = 2
        /\ Len(sa.spread_history_full[I(10)]) = 4
        /\ sa.spread_history_full[I(10)][1] # sa.spread_history_full[I(10)][3]
        /\ sa.spread_history[I(10)][1] = sa.spread_history_full[I(10)][3]
        /\ sa.spread_history[I(10)][1] # sa.spread_history[I(10)][2]
        /\ sa.timestamps_full[1] < sa.timestamps[1]

-----------------------------------------------------------------------------
(* Claims on the risk gate in the live pipeline, checked under SpecGate.   *)

(* The risk gate condition on the ledger as it stands: |q| times the last  *)
(* fair price is above max_notional_exposure, or the last marked pnl is    *)
(* under -max_loss_allowed.  The last fair price is the mid of the stored  *)
(* book, which has both sides.                                             *)
GateConditionHolds ==
    /\ feed.bids # <<>>
    /\ feed.asks # <<>>
    /\ \/ Gt(Times(AbsQ(portfolio.state.q), Over(Plus(feed.asks[1].price, feed.bids[1].price), I(2))),
              market_maker.config.max_notional_exposure)
       \/ Lt(portfolio.state.pnl, Neg(market_maker.config.max_loss_allowed))

(* C30: no fill is applied while the risk gate condition holds: a trade    *)
(* event that arrives then leaves q and cash as they were.                 *)
C30_NoFillWhileGateHolds ==
    [][ (GateConditionHolds /\ last'.op = "trade") =>
            /\ portfolio'.state.q = portfolio.state.q
            /\ portfolio'.state.cash = portfolio.state.cash ]_vars

-----------------------------------------------------------------------------
(* Claims on the shutdown path, checked under SpecShutdown.                *)

\* market_maker.stop() has returned on the shutdown path.
StopReturned == pc \in {"stopped", "closed", "exported"}

(* C22: once market_maker.stop() has returned on the shutdown path, no     *)
(* feed callback applies a further fill to the ledger, none fails on a     *)
(* cleared quote, and the fill log that was exported is the ledger's fill  *)
(* history for good.                                                       *)
C22_ShutdownLeavesFinalState ==
    /\ ~threads.raised
    /\ StopReturned => portfolio.state.total_trades = threads.trades_at_stop
    /\ pc = "exported" => replay.trades_rows = ExportTradesCsv(portfolio)

=============================================================================
